---- MODULE Spec2Model ----
(***************************************************************************)
(* A model of the CPU path tracer's rendering pipeline (crate `tracer`):   *)
(*   - the per-pixel driver and its stop conditions, with the Welford      *)
(*     variance estimator (cpu/renderer.rs, cpu/stats.rs)                  *)
(*   - the tile scheduler and the collector thread (cpu/driver.rs)         *)
(*   - the bounding-volume hierarchy: build, self-check and traversal      *)
(*     (cpu/accel/bvh.rs, cpu/accel/mod.rs, common/aabb.rs)                *)
(*                                                                         *)
(* f32 values are modelled by exact rationals <<num, den>> (estimator) or  *)
(* by integers extended with +inf, -inf and NaN (ray/box arithmetic); the  *)
(* rounding of f32 is not modelled.                                        *)
(***************************************************************************)
EXTENDS Integers, Sequences, FiniteSets

\* ------------------------------------------------------------------------
\* Bounds of the model
\* ------------------------------------------------------------------------

\* largest sample count N of StopCondition::SampleCount and largest min_samples
MaxSamples == 3

\* the pixel loop is cut after this many samples (Variance may never be met)
MaxCount == 4

\* split_into_blocks is applied to every image size up to MaxImage x MaxImage
MaxImage == 33

\* the largest image width and height given to render
MaxWidth == 33
MaxHeight == 17

\* threads of the rayon pool
NumWorkers == 2

\* the largest number of objects of a scene given to BVH::new
MaxObjects == 3

\* ------------------------------------------------------------------------
\* Exact rationals <<n, d>>, d > 0, in lowest terms: the values of f32
\* ------------------------------------------------------------------------

Abs(i) == IF i < 0 THEN -i ELSE i

RECURSIVE GCD(_, _)
GCD(a, b) == IF b = 0 THEN a ELSE GCD(b, a % b)

Rat(n, d) ==
    LET g == GCD(Abs(n), Abs(d))
        s == IF d < 0 THEN -1 ELSE 1
    IN  <<(s * n) \div g, (s * d) \div g>>

IntRat(i) == <<i, 1>>

RAdd(a, b) == Rat(a[1] * b[2] + b[1] * a[2], a[2] * b[2])
RSub(a, b) == Rat(a[1] * b[2] - b[1] * a[2], a[2] * b[2])
RMul(a, b) == Rat(a[1] * b[1], a[2] * b[2])
\* b # 0
RDiv(a, b) == Rat(a[1] * b[2], a[2] * b[1])
RLe(a, b) == a[1] * b[2] <= b[1] * a[2]
RLt(a, b) == a[1] * b[2] < b[1] * a[2]

\* ------------------------------------------------------------------------
\* Color: three channels, arithmetic component-wise (common/scene.rs Color)
\* ------------------------------------------------------------------------

Color(r, g, b) == [red |-> r, green |-> g, blue |-> b]

Channels == {"red", "green", "blue"}

ColorAdd(a, b) == [c \in Channels |-> RAdd(a[c], b[c])]
ColorSub(a, b) == [c \in Channels |-> RSub(a[c], b[c])]
ColorMul(a, b) == [c \in Channels |-> RMul(a[c], b[c])]
ColorDiv(a, b) == [c \in Channels |-> RDiv(a[c], b[c])]
ColorDivScalar(a, k) == [c \in Channels |-> RDiv(a[c], IntRat(k))]

Black == Color(IntRat(0), IntRat(0), IntRat(0))
White == Color(IntRat(1), IntRat(1), IntRat(1))

\* the radiance values a traced sample may return
SampleColors ==
    { Color(IntRat(0), IntRat(0), IntRat(1)),
      Color(IntRat(1), IntRat(0), IntRat(1)),
      Color(IntRat(3), IntRat(2), IntRat(1)),
      Color(Rat(1, 2), IntRat(5), IntRat(1)) }

\* ------------------------------------------------------------------------
\* ColorVarianceEstimator (cpu/stats.rs)
\* ------------------------------------------------------------------------

None == [some |-> FALSE]
Some(v) == [some |-> TRUE, v |-> v]

\* ColorVarianceEstimator::default()
EstimatorDefault == [count |-> 0, mean |-> Black, m2 |-> Black]

\* the new mean of update: mean += delta / count
update_mean_dropped_divisor(mean, delta, count) == ColorAdd(mean, delta)

update_mean(mean, delta, count) == ColorAdd(mean, ColorDivScalar(delta, count))

\* ColorVarianceEstimator::update
update(est, value) ==
    LET count == est.count + 1
        delta == ColorSub(value, est.mean)
        mean == update_mean(est.mean, delta, count)
        delta_2 == ColorSub(value, mean)
    IN  [count |-> count, mean |-> mean, m2 |-> ColorAdd(est.m2, ColorMul(delta, delta_2))]

\* ColorVarianceEstimator::variance
variance(est) ==
    IF est.count >= 2 THEN Some(ColorDivScalar(est.m2, est.count)) ELSE None

\* ------------------------------------------------------------------------
\* StopCondition and the per-pixel loop (cpu/renderer.rs)
\* ------------------------------------------------------------------------

SampleCount(n) == [kind |-> "SampleCount", samples |-> n]
Variance(m, r) == [kind |-> "Variance", min_samples |-> m, max_relative_variance |-> r]

\* the thresholds max_relative_variance of the model
MaxRelVariances == {IntRat(0), Rat(1, 2), IntRat(4)}

StopConditions ==
    { SampleCount(n) : n \in 0..MaxSamples }
    \cup { Variance(m, r) : m \in 0..MaxSamples, r \in MaxRelVariances }

Max(a, b) == IF a >= b THEN a ELSE b
Min(a, b) == IF a <= b THEN a ELSE b

\* rel / sqrt(count) <= right, count >= 1, decided on the squares
SqrtScaledLe(rel, count, right) ==
    LET rel2 == RMul(rel, rel)
        right2c == RMul(RMul(right, right), IntRat(count))
    IN  IF RLe(IntRat(0), rel)
        THEN RLe(IntRat(0), right) /\ RLe(rel2, right2c)
        ELSE RLt(right, IntRat(0)) => RLe(right2c, rel2)

\* variance_lte inside is_done: "panic" when the expect on variance() fires
variance_lte(est, right) ==
    LET v == variance(est)
    IN  IF ~v.some THEN "panic"
        ELSE LET rel_variance == ColorDiv(v.v, ColorAdd(est.mean, White))
             IN  IF \A c \in Channels : SqrtScaledLe(rel_variance[c], est.count, right)
                 THEN "true" ELSE "false"

\* the sample-count threshold of the Variance condition
variance_min_count_unclamped(min_samples) == min_samples

variance_min_count(min_samples) == Max(min_samples, 2)

\* the SampleCount comparison
sample_count_reached_off_by_one(count, samples) == count > samples

sample_count_reached(count, samples) == count >= samples

\* StopCondition::is_done: "true", "false", or "panic"
is_done(sc, est) ==
    IF sc.kind = "SampleCount"
    THEN IF sample_count_reached(est.count, sc.samples) THEN "true" ELSE "false"
    ELSE IF est.count >= variance_min_count(sc.min_samples)
         THEN variance_lte(est, sc.max_relative_variance)
         ELSE "false"

\* the PixelResult built once the loop has ended
PixelResultOf(est) ==
    LET var == IF variance(est).some THEN variance(est).v ELSE Black
    IN  [color |-> est.mean,
         variance |-> var,
         rel_variance |-> ColorDiv(var, ColorAdd(est.mean, White)),
         samples |-> est.count]


\* ------------------------------------------------------------------------
\* Tiles (cpu/driver.rs)
\* ------------------------------------------------------------------------

\* block_size of split_into_blocks
BlockSize == 16

Block(x, y, w, h) == [x |-> x, y |-> y, width |-> w, height |-> h]

\* the tile pushed at (x, y) without clipping it to the image
BlockAtUnclipped(x, y, width, height) == Block(x, y, BlockSize, BlockSize)

\* the tile pushed at (x, y)
BlockAt(x, y, width, height) ==
    Block(x, y, Min(BlockSize, width - x), Min(BlockSize, height - y))

\* for y in (0..height).step_by(block_size)
RECURSIVE split_rows(_, _, _, _, _)
split_rows(result, x, y, width, height) ==
    IF y >= height THEN result
    ELSE split_rows(Append(result, BlockAt(x, y, width, height)),
                    x, y + BlockSize, width, height)

\* for x in (0..width).step_by(block_size)
RECURSIVE split_columns(_, _, _, _)
split_columns(result, x, width, height) ==
    IF x >= width THEN result
    ELSE split_columns(split_rows(result, x, 0, width, height),
                       x + BlockSize, width, height)

split_into_blocks(width, height) == split_columns(<<>>, 0, width, height)

\* Block::x_range, Block::y_range
x_range(block) == block.x .. (block.x + block.width - 1)
y_range(block) == block.y .. (block.y + block.height - 1)

InBlock(block, p) == p[1] \in x_range(block) /\ p[2] \in y_range(block)

\* ------------------------------------------------------------------------
\* render: workers, channel, collector (cpu/driver.rs)
\* ------------------------------------------------------------------------

\* PixelResult::default()
PixelDefault == [px |-> -1, py |-> -1, rng |-> 0]

\* The value calculate_pixel(rng, x, y) returns, as far as render handles it:
\* it is tagged with the pixel it was computed for and with the thread-local
\* rng (one per pool thread) that fed it.
calculate_pixel(rng, x, y) == [px |-> x, py |-> y, rng |-> rng]

Pixels(width, height) == (0..(width - 1)) \X (0..(height - 1))

\* the data vector a worker builds for a tile: for y in y_range, for x in
\* x_range, push calculate_pixel(rng, x, y)
tile_data(rng, block) ==
    [k \in 1..(block.width * block.height) |->
        calculate_pixel(rng,
                        block.x + ((k - 1) % block.width),
                        block.y + ((k - 1) \div block.width))]

\* the collector reading the data column-major
pixel_index_column_major(block, dx, dy) == dx * block.height + dy

\* the index the collector reads for (dx, dy)
pixel_index(block, dx, dy) == dy * block.width + dx

\* the collector's two loops over a received tile
write_block(target, block, pixels) ==
    [p \in DOMAIN target |->
        IF InBlock(block, p)
        THEN pixels[pixel_index(block, p[1] - block.x, p[2] - block.y) + 1]
        ELSE target[p]]

\* the receiver iterator ending as soon as the channel is empty
channel_closed_when_empty(chan, alive) == chan = <<>>

\* the receiver iterator ends: no message left and every sender dropped
channel_closed(chan, alive) == chan = <<>> /\ ~alive

\* the orders blocks.shuffle can leave n blocks in
ShuffleOrders(n) ==
    { f \in [1..n -> 1..n] : \A i, j \in 1..n : f[i] = f[j] => i = j }

\* ------------------------------------------------------------------------
\* f32 values of the ray and box arithmetic: integers, +inf, -inf and NaN
\* ------------------------------------------------------------------------

Fin(v) == <<"fin", v>>
PosInf == <<"inf", 1>>
NegInf == <<"inf", -1>>
NaN == <<"nan", 0>>

IsNaN(a) == a[1] = "nan"
IsFinite(a) == a[1] = "fin"

\* -1 for -inf, 0 for a finite value, 1 for +inf
Rank(a) == IF a[1] = "inf" THEN a[2] ELSE 0

\* a < b, a <= b of f32: false when either is NaN
FLt(a, b) ==
    /\ ~IsNaN(a) /\ ~IsNaN(b)
    /\ \/ Rank(a) < Rank(b)
       \/ IsFinite(a) /\ IsFinite(b) /\ a[2] < b[2]

FLe(a, b) ==
    /\ ~IsNaN(a) /\ ~IsNaN(b)
    /\ \/ Rank(a) < Rank(b)
       \/ a = b
       \/ IsFinite(a) /\ IsFinite(b) /\ a[2] <= b[2]

\* f32::min, f32::max: a NaN operand is ignored
FMin(a, b) == IF IsNaN(a) THEN b ELSE IF IsNaN(b) THEN a ELSE IF FLt(b, a) THEN b ELSE a
FMax(a, b) == IF IsNaN(a) THEN b ELSE IF IsNaN(b) THEN a ELSE IF FLt(a, b) THEN b ELSE a

\* a / b of f32 for an integer a and b in {-1, 0, 1}: x / 0 is +inf or -inf
\* by the sign of x, and 0 / 0 is NaN
FDiv(a, b) ==
    IF b # 0 THEN Fin(a * b)
    ELSE IF a > 0 THEN PosInf ELSE IF a < 0 THEN NegInf ELSE NaN

\* ------------------------------------------------------------------------
\* Points, rays, objects (common/math.rs, common/scene.rs, cpu/geometry.rs)
\* ------------------------------------------------------------------------

\* Axis3::ALL, in order
Axis3 == <<"X", "Y", "Z">>

\* Axis3Owner::get on a point or vector <<x, y, z>>
Get(p, axis) == IF axis = "X" THEN p[1] ELSE IF axis = "Y" THEN p[2] ELSE p[3]

VAdd(a, b) == <<a[1] + b[1], a[2] + b[2], a[3] + b[3]>>
VSub(a, b) == <<a[1] - b[1], a[2] - b[2], a[3] - b[3]>>
VDot(a, b) == a[1] * b[1] + a[2] * b[2] + a[3] * b[3]
VScale(a, k) == <<a[1] * k, a[2] * k, a[3] * k>>
PMin(a, b) == <<Min(a[1], b[1]), Min(a[2], b[2]), Min(a[3], b[3])>>
PMax(a, b) == <<Max(a[1], b[1]), Max(a[2], b[2]), Max(a[3], b[3])>>

\* A ray: start and direction.  The direction has components in {-1, 0, 1}
\* and is left unnormalised: every t of the model is the t of the code
\* divided by the length of this vector, the same positive factor for all
\* the t of one ray.
Ray(start, direction) == [start |-> start, direction |-> direction]

\* Ray::at
RayAt(ray, t) == VAdd(ray.start, VScale(ray.direction, t))

\* An object: a shape, a material reduced to whether it is
\* Fixed { camera_only: true }, and a transform.  The transforms of the model
\* are translate(at) * rotate * scale(size): size is a positive integer, the
\* rotation is the identity (facing "Z") or the cyclic permutation that sends
\* the object's z axis to the world's x axis (facing "X").
Object(shape, at, size, facing, camera_only) ==
    [shape |-> shape, at |-> at, size |-> size, facing |-> facing,
     camera_only |-> camera_only]

\* the rotation of the transform and its inverse, on a vector
Rotate(facing, v) == IF facing = "Z" THEN v ELSE <<v[3], v[1], v[2]>>
RotateInv(facing, v) == IF facing = "Z" THEN v ELSE <<v[2], v[3], v[1]>>

\* transform * point, for a point of object space
TransformPoint(object, q) == VAdd(object.at, Rotate(object.facing, VScale(q, object.size)))

\* transform.inv() * ray, with start and direction multiplied by size (object
\* space is kept in integers; t is unnormalised, so it is the world t)
InvTransformRay(object, ray) ==
    Ray(RotateInv(object.facing, VSub(ray.start, object.at)),
        RotateInv(object.facing, ray.direction))

Hit(t, point, normal) == [t |-> t, point |-> point, normal |-> normal]

\* plane_intersect, on the scaled object-space ray
plane_intersect(ray) ==
    LET t == FDiv(-ray.start[3], ray.direction[3])
    IN  IF ~IsFinite(t) \/ FLt(t, Fin(0)) THEN None
        ELSE Some(Hit(t[2], RayAt(ray, t[2]), <<0, 0, 1>>))

\* (0.0..1.0).contains(v), with v in units of 1 / size
square_contains(v, size) == 0 <= v /\ v < size

\* square_intersect, on the scaled object-space ray
square_intersect(ray, size) ==
    LET hit == plane_intersect(ray)
    IN  IF hit.some /\ square_contains(hit.v.point[1], size)
                    /\ square_contains(hit.v.point[2], size)
        THEN hit ELSE None

\* Hit::transform: the hit in world space (hit.point is in units of 1 / size)
HitTransform(object, hit) ==
    Hit(hit.t,
        VAdd(object.at, Rotate(object.facing, hit.point)),
        Rotate(object.facing, hit.normal))

\* the square root of a perfect square
int_sqrt(n) == CHOOSE r \in 0..n : r * r = n

\* the t of sphere_intersect: t_near if it is >= 0.0, else t_far
sphere_near_or_far(b, root) == IF 0 - b - root >= 0 THEN 0 - b - root ELSE root - b

\* sphere_intersect after the early return, with d = b * b - c
sphere_hit_at(ray, b, d) ==
    Some(Hit(sphere_near_or_far(b, int_sqrt(d)), RayAt(ray, sphere_near_or_far(b, int_sqrt(d))),
             RayAt(ray, sphere_near_or_far(b, int_sqrt(d)))))

\* sphere_intersect, on the scaled object-space ray: b, c and d are those of
\* the code times size, size^2 and size^2.  The rays of the model are
\* parallel to an axis and the spheres have integer centres and size 1, so
\* that d is a perfect square whenever it is not negative.
sphere_intersect_int(ray, size) ==
    LET b == VDot(ray.start, ray.direction)
        c == VDot(ray.start, ray.start) - size * size
    IN  IF b * b - c < 0 \/ (c > 0 /\ b > 0) THEN None
        ELSE sphere_hit_at(ray, b, b * b - c)

\* Object::intersect (intersect_transformed_shape)
intersect(object, ray) ==
    LET obj_ray == InvTransformRay(object, ray)
        obj_hit == IF object.shape = "Plane" THEN plane_intersect(obj_ray)
                   ELSE IF object.shape = "Sphere"
                   THEN sphere_intersect_int(obj_ray, object.size)
                   ELSE square_intersect(obj_ray, object.size)
    IN  IF obj_hit.some THEN Some(HitTransform(object, obj_hit.v)) ELSE None

\* ------------------------------------------------------------------------
\* AxisBox (common/aabb.rs)
\* ------------------------------------------------------------------------

AxisBox(low, high) == [low |-> low, high |-> high]

\* AxisBox::for_shape(shape).is_finite()
shape_box_is_finite(shape) == shape \in {"Square", "Triangle", "Sphere"}

\* AxisBox::combine
combine(a, b) == AxisBox(PMin(a.low, b.low), PMax(a.high, b.high))

\* the corners of for_shape(Square) = [0,1] x [0,1] x {0} (for_each_corner)
SquareCorners ==
    { <<0, 0, 0>>, <<1, 0, 0>>, <<0, 1, 0>>, <<1, 1, 0>> }

\* component-wise minimum and maximum of a non-empty set of points
SetMin(S) == <<CHOOSE v \in {p[1] : p \in S} : \A p \in S : v <= p[1],
               CHOOSE v \in {p[2] : p \in S} : \A p \in S : v <= p[2],
               CHOOSE v \in {p[3] : p \in S} : \A p \in S : v <= p[3]>>
SetMax(S) == <<CHOOSE v \in {p[1] : p \in S} : \A p \in S : v >= p[1],
               CHOOSE v \in {p[2] : p \in S} : \A p \in S : v >= p[2],
               CHOOSE v \in {p[3] : p \in S} : \A p \in S : v >= p[3]>>

\* Transform * AxisBox: the box of the transformed corners
BoxOfPoints(corners) == AxisBox(SetMin(corners), SetMax(corners))

\* the corners of for_shape(Sphere) = [-1,1] x [-1,1] x [-1,1]
SphereCorners == { <<x, y, z>> : x \in {-1, 1}, y \in {-1, 1}, z \in {-1, 1} }

\* the corners of AxisBox::for_shape of a shape with a finite box
shape_corners(shape) == IF shape = "Sphere" THEN SphereCorners ELSE SquareCorners

\* AxisBox::for_object: transform * for_shape(shape)
for_object(object) ==
    BoxOfPoints({ TransformPoint(object, q) : q \in shape_corners(object.shape) })

\* the final test of AxisBox::intersects: t_max >= t_min && t_max > 0.0
box_hit_accepted(t_min, t_max) == FLe(t_min, t_max) /\ FLt(Fin(0), t_max)

\* one axis of the slab loop of AxisBox::intersects: the new <<t_min, t_max>>
slab(box, ray, axis, t) ==
    LET t1 == FDiv(Get(box.low, axis) - Get(ray.start, axis), Get(ray.direction, axis))
        t2 == FDiv(Get(box.high, axis) - Get(ray.start, axis), Get(ray.direction, axis))
    IN  <<FMax(t[1], FMin(t1, t2)), FMin(t[2], FMax(t1, t2))>>

\* if t_max >= t_min && t_max > 0.0 { Some(t_min) } else { None }, t = <<t_min, t_max>>
box_result(t) == IF box_hit_accepted(t[1], t[2]) THEN Some(t[1]) ELSE None

\* AxisBox::intersects: Some(entry t) or None
box_intersects(box, ray) ==
    box_result(slab(box, ray, "Z", slab(box, ray, "Y", slab(box, ray, "X", <<NegInf, PosInf>>))))


\* ------------------------------------------------------------------------
\* BVH build (cpu/accel/bvh.rs)
\* ------------------------------------------------------------------------

SplitLargestAxis == [kind |-> "SplitLargestAxis"]
SurfaceAreaHeuristic(test_planes) ==
    [kind |-> "SurfaceAreaHeuristic", test_planes |-> test_planes]

\* the element at 0-based position i of a Vec
At(vec, i) == vec[i + 1]

\* swap the 0-based positions i and j of a Vec
Swap(vec, i, j) ==
    [k \in 1..Len(vec) |->
        IF k = i + 1 THEN vec[j + 1] ELSE IF k = j + 1 THEN vec[i + 1] ELSE vec[k]]

\* itertools::partition on the slice `slice`, pred given per element value:
\* the loop state is the slice, the front cursor i, the back cursor j (the
\* unvisited elements are i..j-1) and split_index; the result is
\* <<slice, split_index>>
RECURSIVE partition_loop(_, _, _, _, _)
RECURSIVE partition_back(_, _, _, _, _)
partition_loop(slice, pred, i, j, split_index) ==
    IF i >= j THEN <<slice, split_index>>
    ELSE IF pred[At(slice, i)]
         THEN partition_loop(slice, pred, i + 1, j, split_index + 1)
         ELSE partition_back(slice, pred, i, j, split_index)

\* the inner loop: front (position i) fails pred, search from the back
partition_back(slice, pred, i, j, split_index) ==
    IF j - 1 <= i THEN <<slice, split_index>>
    ELSE IF pred[At(slice, j - 1)]
         THEN partition_loop(Swap(slice, i, j - 1), pred, i + 1, j - 1, split_index + 1)
         ELSE partition_back(slice, pred, i, j - 1, split_index)

partition(slice, pred) == partition_loop(slice, pred, 0, Len(slice), 0)

\* Point3::middle, as three rationals
middle(low, high) ==
    <<Rat(low[1] + high[1], 2), Rat(low[2] + high[2], 2), Rat(low[3] + high[3], 2)>>

\* b.low.middle(b.high)
box_middle(b) == middle(b.low, b.high)

\* object_centroid
object_centroid(object) == box_middle(for_object(object))

\* Builder::get_object
get_object(objects, ids, index) == At(objects, At(ids, index))

\* Builder::compute_bound: the boxes of ids[start .. start + len) combined
RECURSIVE compute_bound(_, _, _, _)
compute_bound(objects, ids, start, len) ==
    IF len = 1 THEN for_object(get_object(objects, ids, start))
    ELSE combine(compute_bound(objects, ids, start, len - 1),
                 for_object(get_object(objects, ids, start + len - 1)))

\* a leaf that keeps the bound of its first object only
build_leaf_first_object(objects, ids, start, len) ==
    [bound |-> for_object(get_object(objects, ids, start)),
     kind |-> "Leaf", start |-> start, len |-> len]

\* Builder::build_leaf
build_leaf(objects, ids, start, len) ==
    [bound |-> compute_bound(objects, ids, start, len),
     kind |-> "Leaf", start |-> start, len |-> len]

Branch(bound, left_index) == [bound |-> bound, kind |-> "Branch", left_index |-> left_index]

\* the last axis of Axis3::ALL with the largest extend (Iterator::max_by_key
\* returns the last maximum)
LargestAxis(extend) ==
    LET largest(k) == \A l \in 1..3 : extend[l] <= extend[k]
    IN  Axis3[CHOOSE k \in 1..3 : largest(k) /\ \A l \in (k + 1)..3 : ~largest(l)]

\* (bound.low.get(split_axis) + bound.high.get(split_axis)) / 2.0
split_at_middle(bound, split_axis) ==
    Some(<<split_axis, Rat(Get(bound.low, split_axis) + Get(bound.high, split_axis), 2)>>)

\* Builder::find_best_split_largest_axis: Some(<<axis, value>>)
find_best_split_largest_axis(bound) ==
    split_at_middle(bound, LargestAxis(VSub(bound.high, bound.low)))

\* f32 costs: a rational or +inf
CostInf == <<"inf">>
Cost(r) == <<"fin", r>>
CostLe(a, b) == b = CostInf \/ (a # CostInf /\ RLe(a[2], b[2]))
CostLt(a, b) == a # CostInf /\ (b = CostInf \/ RLt(a[2], b[2]))

RMin(a, b) == IF RLe(a, b) THEN a ELSE b
RMax(a, b) == IF RLe(a, b) THEN b ELSE a

\* the surface of a box with the edges dx, dy, dz
surface(dx, dy, dz) ==
    RMul(IntRat(2), RAdd(RAdd(RMul(dx, dy), RMul(dy, dz)), RMul(dz, dx)))

\* AxisBox::area of a box with rational corners
area(low, high) ==
    surface(RSub(high[1], low[1]), RSub(high[2], low[2]), RSub(high[3], low[3]))

RatPoint(p) == <<IntRat(p[1]), IntRat(p[2]), IntRat(p[3])>>

\* low.min(centroid) and high.max(centroid) on a box <<low, high>>
extend_box(box, c) ==
    <<[k \in 1..3 |-> RMin(box[1][k], c[k])], [k \in 1..3 |-> RMax(box[2][k], c[k])]>>

\* the box of the centroids of a non-empty set of positions: <<low, high>>
RECURSIVE CentroidBox(_, _)
CentroidBox(centroids, S) ==
    LET index == CHOOSE index \in S : TRUE
    IN  IF S = {index} THEN <<centroids[index], centroids[index]>>
        ELSE extend_box(CentroidBox(centroids, S \ {index}), centroids[index])

AxisIndex(axis) == IF axis = "X" THEN 1 ELSE IF axis = "Y" THEN 2 ELSE 3

\* left_count as f32 * left_box.area() + right_count as f32 * right_box.area()
split_cost(left_count, left_box, right_count, right_box) ==
    Cost(RAdd(RMul(IntRat(left_count), area(left_box[1], left_box[2])),
              RMul(IntRat(right_count), area(right_box[1], right_box[2]))))

\* the end of eval_potential_split, given the positions on the left and on
\* the right of the plane
sides_cost(centroids, left, right) ==
    IF left = {} \/ right = {} THEN CostInf
    ELSE split_cost(Cardinality(left), CentroidBox(centroids, left),
                    Cardinality(right), CentroidBox(centroids, right))

\* the loop of eval_potential_split over the centroids of the range
centroids_cost(centroids, axis, value) ==
    sides_cost(centroids,
               { index \in DOMAIN centroids : RLt(centroids[index][AxisIndex(axis)], value) },
               { index \in DOMAIN centroids : ~RLt(centroids[index][AxisIndex(axis)], value) })

\* Builder::eval_potential_split
eval_potential_split(objects, ids, start, len, axis, value) ==
    centroids_cost([index \in start..(start + len - 1) |->
                        object_centroid(get_object(objects, ids, index))],
                   axis, value)

\* lerp(t, x, y)
lerp(t, x, y) == RAdd(RMul(t, x), RMul(RSub(IntRat(1), t), y))

\* the planes find_best_split_surface_area tries, in order: <<axis, value>>
split_candidates(objects, ids, start, len, bound, test_planes) ==
    IF test_planes.some /\ len > test_planes.v
    THEN [k \in 1..(3 * test_planes.v) |->
            <<Axis3[((k - 1) % 3) + 1],
              lerp(Rat(((k - 1) \div 3) + 1, test_planes.v),
                   IntRat(bound.low[((k - 1) % 3) + 1]),
                   IntRat(bound.high[((k - 1) % 3) + 1]))>>]
    ELSE [k \in 1..(3 * len) |->
            <<Axis3[((k - 1) % 3) + 1],
              object_centroid(get_object(objects, ids, start + ((k - 1) \div 3)))[((k - 1) % 3) + 1]>>]

\* the closure try_split, on <<best, best_cost>>
try_split(best, candidate, cost) ==
    IF CostLe(cost, best[2]) THEN <<Some(candidate), cost>> ELSE best

\* try_split over the candidates from position k on: <<best, best_cost>>
RECURSIVE try_splits(_, _, _, _, _, _, _)
try_splits(objects, ids, start, len, candidates, k, best) ==
    IF k > Len(candidates) THEN best
    ELSE try_splits(objects, ids, start, len, candidates, k + 1,
                    try_split(best, candidates[k],
                              eval_potential_split(objects, ids, start, len,
                                                   candidates[k][1], candidates[k][2])))

\* if best_cost < curr_cost { best } else { None }
accept_split(best, curr_cost) == IF CostLt(best[2], curr_cost) THEN best[1] ELSE None

\* Builder::find_best_split_surface_area
find_best_split_surface_area(objects, ids, start, len, bound, test_planes) ==
    IF len < 2 THEN None
    ELSE accept_split(
            try_splits(objects, ids, start, len,
                       split_candidates(objects, ids, start, len, bound, test_planes),
                       1, <<None, CostInf>>),
            Cost(RMul(IntRat(len), area(RatPoint(bound.low), RatPoint(bound.high)))))

\* Builder::find_best_split
find_best_split(objects, strategy, ids, start, len, bound) ==
    IF strategy.kind = "SplitLargestAxis"
    THEN find_best_split_largest_axis(bound)
    ELSE find_best_split_surface_area(objects, ids, start, len, bound, strategy.test_planes)

\* the partitioned elements written to the front of ids, not to the range of
\* the node
ReplaceSliceAtFront(ids, start, slice) ==
    [k \in 1..Len(ids) |-> IF k <= Len(slice) THEN slice[k] ELSE ids[k]]

\* &mut self.ids[start..][..len] after the partition: the elements
\* ids[start .. start + len) replaced by `slice`
ReplaceSlice(ids, start, slice) ==
    [k \in 1..Len(ids) |->
        IF k - 1 >= start /\ k - 1 < start + Len(slice) THEN slice[k - start] ELSE ids[k]]

\* what one call of Builder::split leaves: the ids, the nodes, and the
\* children its two recursive calls are for (none when the node stays a leaf)
SplitDone(ids, nodes, children) == [ids |-> ids, nodes |-> nodes, children |-> children]

\* Builder::split from "push the children" on
push_children(nodes, node_index, node, left, right) ==
    [Append(Append(nodes, left), right) EXCEPT
        ![node_index + 1] = Branch(node.bound, Len(nodes))]

\* the right child starts where the left one does
right_start_at_start(start, left_len) == start

\* the start of the right child: start + left_len.get()
right_start(start, left_len) == start + left_len

\* Builder::split from "stop if one of the children is empty" on
split_at(objects, ids, nodes, node_index, node, split_index) ==
    IF split_index = 0 \/ node.len - split_index = 0
    THEN SplitDone(ids, nodes, <<>>)
    ELSE SplitDone(ids,
                   push_children(nodes, node_index, node,
                                 build_leaf(objects, ids, node.start, split_index),
                                 build_leaf(objects, ids, right_start(node.start, split_index),
                                            node.len - split_index)),
                   <<Len(nodes), Len(nodes) + 1>>)

\* Builder::split from "rearrange the objects" on; best = <<axis, value>>
split_by(objects, ids, nodes, node_index, node, parted) ==
    split_at(objects, ReplaceSlice(ids, node.start, parted[1]), nodes, node_index, node,
             parted[2])

\* the closure given to partition: centroid.get(split_axis) < split_value
split_pred(objects, split_axis, split_value) ==
    [id \in 0..(Len(objects) - 1) |->
        RLt(object_centroid(At(objects, id))[AxisIndex(split_axis)], split_value)]

\* Builder::split from the match on find_best_split on
split_found(objects, ids, nodes, node_index, node, best) ==
    IF ~best.some THEN SplitDone(ids, nodes, <<>>)
    ELSE split_by(objects, ids, nodes, node_index, node,
                  partition(SubSeq(ids, node.start + 1, node.start + node.len),
                            split_pred(objects, best.v[1], best.v[2])))

\* Builder::split of a leaf node
split_node(objects, strategy, ids, nodes, node_index, node) ==
    split_found(objects, ids, nodes, node_index, node,
                find_best_split(objects, strategy, ids, node.start, node.len, node.bound))

\* Builder::split without its two recursive calls
split(objects, strategy, ids, nodes, node_index) ==
    split_node(objects, strategy, ids, nodes, node_index, At(nodes, node_index))

\* assert_eq!(node.bound, actual_bound): Some(actual_bound), None on failure
assert_bound(node, actual_bound) ==
    IF actual_bound.some /\ actual_bound.v = node.bound THEN actual_bound ELSE None

\* bound_left.combine(bound_right), None when a check below has failed
combine_checked(bound_left, bound_right) ==
    IF bound_left.some /\ bound_right.some
    THEN Some(combine(bound_left.v, bound_right.v)) ELSE None

\* Builder::check_node: Some(the actual bound of the node), or None when the
\* assert_eq on the node or on a node below it fails; the `seen` flags are
\* check_seen below
RECURSIVE check_node(_, _, _, _)
RECURSIVE check_kind(_, _, _, _)
check_kind(objects, ids, nodes, node) ==
    IF node.kind = "Leaf"
    THEN Some(compute_bound(objects, ids, node.start, node.len))
    ELSE combine_checked(check_node(objects, ids, nodes, node.left_index),
                         check_node(objects, ids, nodes, node.left_index + 1))

check_node(objects, ids, nodes, node_index) ==
    assert_bound(At(nodes, node_index), check_kind(objects, ids, nodes, At(nodes, node_index)))

\* the ids visited by check_node, in order (a Vec of object indices)
RECURSIVE check_node_ids(_, _, _)
check_node_ids(ids, nodes, node_index) ==
    LET node == At(nodes, node_index)
    IN  IF node.kind = "Leaf" THEN SubSeq(ids, node.start + 1, node.start + node.len)
        ELSE check_node_ids(ids, nodes, node.left_index)
             \o check_node_ids(ids, nodes, node.left_index + 1)

\* the `seen` assertions of check and check_node: no id visited twice, every
\* object visited
check_seen(n, visited) ==
    /\ \A k, l \in 1..Len(visited) : k # l => visited[k] # visited[l]
    /\ \A id \in 0..(n - 1) : \E k \in 1..Len(visited) : visited[k] = id

\* Builder::check: TRUE when no assertion fails
check(objects, ids, nodes, global_ids) ==
    /\ check_node(objects, ids, nodes, 0).some
    /\ check_seen(Len(objects), check_node_ids(ids, nodes, 0) \o global_ids)

\* ------------------------------------------------------------------------
\* first_hit (cpu/accel/mod.rs, cpu/accel/bvh.rs, cpu/renderer.rs)
\* ------------------------------------------------------------------------

\* a filter that accepts every object
filter_accept_all(is_camera_ray, object) == TRUE

\* filter_fixed_camera_only(is_camera_ray), applied to an object
filter_fixed_camera_only(is_camera_ray, object) == is_camera_ray \/ ~object.camera_only

\* Iterator::min_by_key: the first of the elements with the minimum key
first_min_index(cand, t) ==
    CHOOSE k \in cand : \A l \in cand : t[k] < t[l] \/ (t[k] = t[l] /\ k <= l)

\* the minimum of the hits that are Some: Some(<<index, hit>>), index 0-based
min_hit(hits, cand) ==
    IF cand = {} THEN None
    ELSE Some(<<first_min_index(cand, [k \in cand |-> hits[k].v.t]) - 1,
                hits[first_min_index(cand, [k \in cand |-> hits[k].v.t])].v>>)

\* the filter_map of first_hit: per object, its hit if the filter accepts it
filter_hits(hits) == min_hit(hits, { k \in DOMAIN hits : hits[k].some })

\* first_hit of cpu/accel/mod.rs over the Vec `objs`
first_hit(objs, ray, is_camera_ray) ==
    filter_hits([k \in 1..Len(objs) |->
                    IF filter_fixed_camera_only(is_camera_ray, objs[k])
                    THEN intersect(objs[k], ray) ELSE None])

ObjectHit(id, hit) == [id |-> id, hit |-> hit]

\* .map(|(index, hit)| ObjectHit { id: ObjectId::new(index), hit })
to_object_hit(found) ==
    IF found.some THEN Some(ObjectHit(found.v[1], found.v[2])) ELSE None

\* NoAccel::first_hit: the linear scan over scene.objects
NoAccel_first_hit(objects, ray, is_camera_ray) ==
    to_object_hit(first_hit(objects, ray, is_camera_ray))

\* ObjectHit::closest
closest(left, right) == IF left.hit.t < right.hit.t THEN left ELSE right

\* ObjectHit::closest_option
closest_option(left, right) ==
    IF left.some /\ right.some THEN Some(closest(left.v, right.v))
    ELSE IF left.some THEN left
    ELSE right

\* Option<f32>::unwrap_or(f32::INFINITY)
unwrap_or_infinity(t) == IF t.some THEN t.v ELSE PosInf

\* Option<ObjectHit>::map_or(f32::INFINITY, |hit| hit.hit.t)
hit_t_or_infinity(hit) == IF hit.some THEN Fin(hit.v.hit.t) ELSE PosInf

\* the index in the slice taken for the id of the object
to_slice_hit_unmapped(slice_ids, found) ==
    IF found.some THEN Some(ObjectHit(found.v[1], found.v[2])) ELSE None

\* .map(|(index, hit)| ObjectHit { id: ids[start + index].to_large(), hit })
\* on the slice `slice_ids` of ids or global_ids
to_slice_hit(slice_ids, found) ==
    IF found.some THEN Some(ObjectHit(At(slice_ids, found.v[1]), found.v[2])) ELSE None

\* first_hit over the objects of the ids `slice_ids`, with their ids
slice_first_hit(slice_ids, objects, ray, is_camera_ray) ==
    to_slice_hit(slice_ids,
                 first_hit([k \in 1..Len(slice_ids) |-> At(objects, slice_ids[k])],
                           ray, is_camera_ray))

\* a child is visited whatever its entry t
child_visited_always(child_t, t_max) == TRUE

\* if first_t < t_max { .. } and if second_t < t_max { .. }
child_visited(child_t, t_max) == FLt(child_t, t_max)

\* the children are not swapped: first_t < second_t
left_is_first(left_t, right_t) == FLt(left_t, right_t)

\* t_max = f32::min(t_max, first.as_ref().map_or(f32::INFINITY, |hit| hit.hit.t))
lowered_t_max(t_max, first) == FMin(t_max, hit_t_or_infinity(first))

\* BVH::first_hit_impl on the BVH `bvh` = [ids, nodes, global_ids]
RECURSIVE first_hit_impl(_, _, _, _, _, _)

\* the second child of a branch: if second_t < t_max { .. }; best
second_hit(bvh, objects, ray, is_camera_ray, second_index, second_t, t_max, best) ==
    IF child_visited(second_t, t_max)
    THEN closest_option(best,
            first_hit_impl(bvh, objects, ray, is_camera_ray, second_index, t_max))
    ELSE best

\* after the first child: t_max = f32::min(t_max, ..), best = closest_option(None, first)
after_first(bvh, objects, ray, is_camera_ray, second_index, second_t, t_max, first) ==
    second_hit(bvh, objects, ray, is_camera_ray, second_index, second_t,
               lowered_t_max(t_max, first), closest_option(None, first))

\* the two children in their visiting order
ordered_hit(bvh, objects, ray, is_camera_ray, first_index, first_t, second_index, second_t, t_max) ==
    IF child_visited(first_t, t_max)
    THEN after_first(bvh, objects, ray, is_camera_ray, second_index, second_t, t_max,
                     first_hit_impl(bvh, objects, ray, is_camera_ray, first_index, t_max))
    ELSE second_hit(bvh, objects, ray, is_camera_ray, second_index, second_t, t_max, None)

\* the Branch arm, given the entry t of the two children
branch_hit(bvh, objects, ray, is_camera_ray, left_index, left_t, right_t, t_max) ==
    IF ~left_is_first(left_t, right_t)
    THEN ordered_hit(bvh, objects, ray, is_camera_ray, left_index + 1, right_t,
                     left_index, left_t, t_max)
    ELSE ordered_hit(bvh, objects, ray, is_camera_ray, left_index, left_t,
                     left_index + 1, right_t, t_max)

\* the match on node.kind
node_hit(bvh, objects, ray, is_camera_ray, node, t_max) ==
    IF node.kind = "Leaf"
    THEN slice_first_hit(SubSeq(bvh.ids, node.start + 1, node.start + node.len),
                         objects, ray, is_camera_ray)
    ELSE branch_hit(bvh, objects, ray, is_camera_ray, node.left_index,
                    unwrap_or_infinity(box_intersects(At(bvh.nodes, node.left_index).bound, ray)),
                    unwrap_or_infinity(box_intersects(At(bvh.nodes, node.left_index + 1).bound, ray)),
                    t_max)

first_hit_impl(bvh, objects, ray, is_camera_ray, node_index, t_max) ==
    IF ~box_intersects(At(bvh.nodes, node_index).bound, ray).some THEN None
    ELSE node_hit(bvh, objects, ray, is_camera_ray, At(bvh.nodes, node_index), t_max)

\* one recursive call of first_hit_impl from a Branch: the child, its parent,
\* whether it is the first or the second of the two ifs, the entry t of its
\* box and of its sibling's box (infinity for a box the ray misses), the
\* t_max the parent was called with and the t_max the child is called with
Visit(node_index, parent, rank, child_t, sibling_t, t_start, t_max) ==
    [node |-> node_index, parent |-> parent, rank |-> rank, child_t |-> child_t,
     sibling_t |-> sibling_t, t_start |-> t_start, t_max |-> t_max]

\* the recursive calls that first_hit_impl makes, in their order
RECURSIVE visits_impl(_, _, _, _, _, _)

\* the calls from `if second_t < t_max { .. }`
second_visits(bvh, objects, ray, is_camera_ray, parent, second_index, second_t, first_t, t_start, t_max) ==
    IF child_visited(second_t, t_max)
    THEN <<Visit(second_index, parent, 2, second_t, first_t, t_start, t_max)>>
         \o visits_impl(bvh, objects, ray, is_camera_ray, second_index, t_max)
    ELSE <<>>

\* the calls of the two ifs
ordered_visits(bvh, objects, ray, is_camera_ray, parent, first_index, first_t, second_index, second_t, t_max) ==
    IF child_visited(first_t, t_max)
    THEN <<Visit(first_index, parent, 1, first_t, second_t, t_max, t_max)>>
         \o visits_impl(bvh, objects, ray, is_camera_ray, first_index, t_max)
         \o second_visits(bvh, objects, ray, is_camera_ray, parent, second_index, second_t,
                          first_t, t_max,
                          lowered_t_max(t_max, first_hit_impl(bvh, objects, ray, is_camera_ray,
                                                              first_index, t_max)))
    ELSE second_visits(bvh, objects, ray, is_camera_ray, parent, second_index, second_t,
                       first_t, t_max, t_max)

\* the calls of the Branch arm
branch_visits(bvh, objects, ray, is_camera_ray, parent, left_index, left_t, right_t, t_max) ==
    IF ~left_is_first(left_t, right_t)
    THEN ordered_visits(bvh, objects, ray, is_camera_ray, parent, left_index + 1, right_t,
                        left_index, left_t, t_max)
    ELSE ordered_visits(bvh, objects, ray, is_camera_ray, parent, left_index, left_t,
                        left_index + 1, right_t, t_max)

\* the calls of the match on node.kind
node_visits(bvh, objects, ray, is_camera_ray, node_index, node, t_max) ==
    IF node.kind = "Leaf" THEN <<>>
    ELSE branch_visits(bvh, objects, ray, is_camera_ray, node_index, node.left_index,
                       unwrap_or_infinity(box_intersects(At(bvh.nodes, node.left_index).bound, ray)),
                       unwrap_or_infinity(box_intersects(At(bvh.nodes, node.left_index + 1).bound, ray)),
                       t_max)

visits_impl(bvh, objects, ray, is_camera_ray, node_index, t_max) ==
    IF ~box_intersects(At(bvh.nodes, node_index).bound, ray).some THEN <<>>
    ELSE node_visits(bvh, objects, ray, is_camera_ray, node_index, At(bvh.nodes, node_index), t_max)

\* let t_max = global_hit.as_ref().map_or(f32::INFINITY, |hit| hit.hit.t)
root_t_max(global_hit) == hit_t_or_infinity(global_hit)

\* the recursive calls of one <BVH as Accel>::first_hit, below the root
tree_visits(bvh, objects, ray, is_camera_ray, global_hit) ==
    IF bvh.nodes = <<>> THEN <<>>
    ELSE visits_impl(bvh, objects, ray, is_camera_ray, 0, root_t_max(global_hit))

\* <BVH as Accel>::first_hit from `if self.nodes.is_empty()` on
tree_hit(bvh, objects, ray, is_camera_ray, global_hit) ==
    IF bvh.nodes = <<>> THEN global_hit
    ELSE closest_option(global_hit,
            first_hit_impl(bvh, objects, ray, is_camera_ray, 0, root_t_max(global_hit)))

\* <BVH as Accel>::first_hit
BVH_first_hit(bvh, objects, ray, is_camera_ray) ==
    tree_hit(bvh, objects, ray, is_camera_ray,
             slice_first_hit(bvh.global_ids, objects, ray, is_camera_ray))

\* the recursive calls of first_hit_impl in one <BVH as Accel>::first_hit
BVH_visits(bvh, objects, ray, is_camera_ray) ==
    tree_visits(bvh, objects, ray, is_camera_ray,
                slice_first_hit(bvh.global_ids, objects, ray, is_camera_ray))

VARIABLES
    \* calculate_pixel
    stop_condition,   \* settings.stop_condition
    estimator,        \* the ColorVarianceEstimator of the pixel
    traced,           \* the colors returned by trace_ray so far (history)
    pixel_pc,         \* "loop", "done" (PixelResult returned), "panic"
    pixel_result,     \* the returned PixelResult, None before
    \* split_into_blocks
    split_width,      \* argument width
    split_height,     \* argument height
    split_result,     \* the returned Vec<Block>, None before the call
    \* render
    width,            \* argument width
    height,           \* argument height
    main_pc,          \* the calling thread: "start", "spawned", "par_iter",
                      \*   "dropped", "returned"
    blocks,           \* the shuffled blocks
    next_block,       \* index of the first block no worker has started
    workers,          \* per pool thread: None, or the tile it rendered
    channel,          \* messages sent and not yet received
    sender_alive,     \* the sender has not been dropped
    coll_pc,          \* the collector: "unborn", "recv", "update", "returned"
    target,           \* the collector's image
    result,           \* the image render returns, None before
    rendered_by,      \* per block: the pool thread that rendered it, 0 before
                      \*   (history)
    received,         \* the blocks the collector has processed, in order (history)
    updated,          \* the blocks P::update was called with, in order (history)
    \* BVH
    objects,          \* scene.objects
    strategy,         \* the BVHSplitStrategy
    bvh_pc,           \* BVH::new: "new", "split", "built", "panic"
    ids,              \* builder.ids, then BVH.ids
    global_ids,       \* BVH.global_ids
    nodes,            \* builder.nodes, then BVH.nodes
    todo,             \* the node indices whose split call is still to run
    query,            \* None, or the ray and filter of the first_hit call
    bvh_hit,          \* what BVH::first_hit returned for the query
    \* trace_ray
    materials,        \* per object: its material type and whether it emits
    max_bounces,      \* settings.max_bounces
    light_strategy,   \* the Strategy: "Simple" or "SampleLights"
    stack,            \* the trace_ray calls in progress, the innermost last
    trace_pc,         \* "ready", "running", "returned", "panic", "sample_panic"
    last_query,       \* the last first_hit query and its answer (history)
    trace_calls,      \* the number of trace_ray calls so far (history)
    accel_queries,    \* the number of first_hit queries of trace_ray (history)
    \* progress handlers
    progress_pc,      \* the collector: "init", "update", "returned", "panic"
    progress_size,    \* the width and height that render was called with
    tev_client,       \* TevProgress.client is Some
    tev_sent,         \* the packets the viewer received, in order (history)
    tev_failed,       \* a send has failed (history)
    tev_attempts,     \* the number of client.send calls (history)
    print_updates,    \* the blocks PrintProgress::update was called with
    tiles_left,       \* the tile results the collector has yet to receive
    \* one call of a function
    args,             \* the arguments of the call
    returned,         \* None before the call, then what the call returned
    \* trace_ray along one path through a layered scene
    path_scene,       \* the layered scene, the camera and the settings of the traced path
    path_call,        \* the arguments of the trace_ray call in progress
    path_log,         \* one entry per hit of a material that is not Fixed (history)
    path_pc           \* "ready", "running", "returned", "panic"

pixelVars == <<stop_condition, estimator, traced, pixel_pc, pixel_result>>

splitVars == <<split_width, split_height, split_result>>

renderVars == <<width, height, main_pc, blocks, next_block, workers, channel,
                sender_alive, coll_pc, target, result, rendered_by, received,
                updated>>

bvhVars == <<objects, strategy, bvh_pc, ids, global_ids, nodes, todo, query, bvh_hit>>

traceVars == <<materials, max_bounces, light_strategy, stack, trace_pc, last_query,
               trace_calls, accel_queries>>

progressVars == <<progress_pc, progress_size, tev_client, tev_sent, tev_failed, tev_attempts,
                  print_updates, tiles_left>>

callVars == <<args, returned>>

pathVars == <<path_scene, path_call, path_log, path_pc>>

vars == <<pixelVars, splitVars, renderVars, bvhVars, traceVars, progressVars, callVars,
    pathVars>>

notPixelVars == <<splitVars, renderVars, bvhVars, traceVars, progressVars, callVars,
    pathVars>>
notSplitVars == <<pixelVars, renderVars, bvhVars, traceVars, progressVars, callVars,
    pathVars>>
notRenderVars == <<pixelVars, splitVars, bvhVars, traceVars, progressVars, callVars,
    pathVars>>
notBvhVars == <<pixelVars, splitVars, renderVars, traceVars, progressVars, callVars,
    pathVars>>
notTraceVars == <<pixelVars, splitVars, renderVars, progressVars, callVars,
    pathVars>>
notProgressVars == <<pixelVars, splitVars, renderVars, bvhVars, traceVars, callVars,
    pathVars>>
notCallVars == <<pixelVars, splitVars, renderVars, bvhVars, traceVars, progressVars,
    pathVars>>
notPathVars == <<pixelVars, splitVars, renderVars, bvhVars, traceVars, progressVars, callVars>>

\* the parts of the state a specification does not use
PixelIdle ==
    /\ stop_condition = SampleCount(0)
    /\ estimator = EstimatorDefault
    /\ traced = <<>>
    /\ pixel_pc = "idle"
    /\ pixel_result = None

BvhIdle ==
    /\ objects = <<>>
    /\ strategy = SplitLargestAxis
    /\ bvh_pc = "idle"
    /\ ids = <<>>
    /\ global_ids = <<>>
    /\ nodes = <<>>
    /\ todo = <<>>
    /\ query = None
    /\ bvh_hit = None

TraceIdle ==
    /\ materials = <<>>
    /\ max_bounces = 0
    /\ light_strategy = "Simple"
    /\ stack = <<>>
    /\ trace_pc = "idle"
    /\ last_query = None
    /\ trace_calls = 0
    /\ accel_queries = 0

ProgressIdle ==
    /\ progress_pc = "idle"
    /\ progress_size = <<0, 0>>
    /\ tev_client = FALSE
    /\ tev_sent = <<>>
    /\ tev_failed = FALSE
    /\ tev_attempts = 0
    /\ print_updates = <<>>
    /\ tiles_left = <<>>

CallIdle ==
    /\ args = None
    /\ returned = None

PathIdle ==
    /\ path_scene = None
    /\ path_call = None
    /\ path_log = <<>>
    /\ path_pc = "idle"

\* the parts of the state that only the later specifications use
OthersIdle == TraceIdle /\ ProgressIdle /\ CallIdle /\ PathIdle

SplitIdle ==
    /\ split_width = 0
    /\ split_height = 0
    /\ split_result = None

RenderIdle ==
    /\ width = 0
    /\ height = 0
    /\ main_pc = "idle"
    /\ blocks = <<>>
    /\ next_block = 0
    /\ workers = <<>>
    /\ channel = <<>>
    /\ sender_alive = FALSE
    /\ coll_pc = "idle"
    /\ target = <<>>
    /\ result = None
    /\ rendered_by = <<>>
    /\ received = <<>>
    /\ updated = <<>>

\* ------------------------------------------------------------------------
\* calculate_pixel
\* ------------------------------------------------------------------------

InitPixel ==
    /\ stop_condition \in StopConditions
    /\ estimator = EstimatorDefault
    /\ traced = <<>>
    /\ pixel_pc = "loop"
    /\ pixel_result = None

\* one iteration of the while loop: is_done is false, a ray is traced and fed
\* to the estimator
PixelSample ==
    /\ pixel_pc = "loop"
    /\ is_done(stop_condition, estimator) = "false"
    /\ estimator.count < MaxCount
    /\ \E color \in SampleColors :
        /\ estimator' = update(estimator, color)
        /\ traced' = Append(traced, color)
    /\ UNCHANGED <<stop_condition, pixel_pc, pixel_result>>
    /\ UNCHANGED notPixelVars

\* is_done is true: the loop ends and the PixelResult is returned
PixelReturn ==
    /\ pixel_pc = "loop"
    /\ is_done(stop_condition, estimator) = "true"
    /\ pixel_pc' = "done"
    /\ pixel_result' = Some(PixelResultOf(estimator))
    /\ UNCHANGED <<stop_condition, estimator, traced>>
    /\ UNCHANGED notPixelVars

NextPixel == PixelSample \/ PixelReturn

InitPixelSpec == InitPixel /\ SplitIdle /\ RenderIdle /\ BvhIdle /\ OthersIdle

SpecPixel == InitPixelSpec /\ [][NextPixel]_vars

\* ------------------------------------------------------------------------
\* split_into_blocks applied to every image size of the bounds
\* ------------------------------------------------------------------------

InitSplit ==
    /\ split_width \in 0..MaxImage
    /\ split_height \in 0..MaxImage
    /\ split_result = None

SplitCall ==
    /\ split_result = None
    /\ split_result' = Some(split_into_blocks(split_width, split_height))
    /\ UNCHANGED <<split_width, split_height>>
    /\ UNCHANGED notSplitVars

NextSplit == SplitCall

InitSplitSpec == InitSplit /\ PixelIdle /\ RenderIdle /\ BvhIdle /\ OthersIdle

SpecSplit == InitSplitSpec /\ [][NextSplit]_vars

\* ------------------------------------------------------------------------
\* CpuRenderer::render
\* ------------------------------------------------------------------------

\* the image sizes given to render: empty images, a single tile, a column of
\* two tiles and a row of tiles
RenderSizes ==
    { <<0, MaxHeight>>, <<MaxWidth, 0>>, <<1, 1>>, <<2, MaxHeight>>, <<MaxWidth, 2>> }

InitRender ==
    /\ \E size \in RenderSizes : width = size[1] /\ height = size[2]
    /\ main_pc = "start"
    /\ blocks = <<>>
    /\ next_block = 1
    /\ workers = [w \in 1..NumWorkers |-> None]
    /\ channel = <<>>
    /\ sender_alive = TRUE
    /\ coll_pc = "unborn"
    /\ target = <<>>
    /\ result = None
    /\ rendered_by = <<>>
    /\ received = <<>>
    /\ updated = <<>>

\* the channel is created and the collector thread is spawned
SpawnCollector ==
    /\ main_pc = "start"
    /\ main_pc' = "spawned"
    /\ UNCHANGED <<width, height, blocks, next_block, workers, channel, sender_alive,
                   coll_pc, target, result, rendered_by, received, updated>>
    /\ UNCHANGED notRenderVars

\* the collector thread starts: it allocates the target image
CollectorStart ==
    /\ main_pc # "start"
    /\ coll_pc = "unborn"
    /\ coll_pc' = "recv"
    /\ target' = [p \in Pixels(width, height) |-> PixelDefault]
    /\ UNCHANGED <<width, height, main_pc, blocks, next_block, workers, channel,
                   sender_alive, result, rendered_by, received, updated>>
    /\ UNCHANGED notRenderVars

\* split_into_blocks and shuffle, then the parallel iteration starts
Shuffle ==
    /\ main_pc = "spawned"
    /\ LET tiles == split_into_blocks(width, height)
       IN  \E order \in ShuffleOrders(Len(tiles)) :
            /\ blocks' = [i \in 1..Len(tiles) |-> tiles[order[i]]]
            /\ rendered_by' = [i \in 1..Len(tiles) |-> 0]
    /\ main_pc' = "par_iter"
    /\ UNCHANGED <<width, height, next_block, workers, channel, sender_alive, coll_pc,
                   target, result, received, updated>>
    /\ UNCHANGED notRenderVars

\* A pool thread takes the next block and renders its pixels.  The pool hands
\* the blocks out in an unspecified order; every order is a shuffle order, so
\* the blocks are taken here in the order of the shuffled vector.
WorkerRender(w) ==
    /\ main_pc = "par_iter"
    /\ workers[w] = None
    /\ next_block <= Len(blocks)
    /\ LET block == blocks[next_block]
       IN  workers' = [workers EXCEPT
                         ![w] = Some([block |-> block, data |-> tile_data(w, block)])]
    /\ rendered_by' = [rendered_by EXCEPT ![next_block] = w]
    /\ next_block' = next_block + 1
    /\ UNCHANGED <<width, height, main_pc, blocks, channel, sender_alive, coll_pc,
                   target, result, received, updated>>
    /\ UNCHANGED notRenderVars

\* a channel of a fixed capacity is full at that many queued messages
channel_is_full_bounded(queue) == Len(queue) >= NumWorkers

\* crossbeam::channel::unbounded(): the channel has no capacity, it is never
\* full
channel_is_full(queue) == FALSE

\* the pool thread sends (block, data); send waits while the channel is full
WorkerSend(w) ==
    /\ workers[w] # None
    /\ ~channel_is_full(channel)
    /\ channel' = Append(channel, workers[w].v)
    /\ workers' = [workers EXCEPT ![w] = None]
    /\ UNCHANGED <<width, height, main_pc, blocks, next_block, sender_alive, coll_pc,
                   target, result, rendered_by, received, updated>>
    /\ UNCHANGED notRenderVars

\* for_each has returned (every block rendered and sent): drop(sender)
DropSender ==
    /\ main_pc = "par_iter"
    /\ next_block > Len(blocks)
    /\ \A w \in 1..NumWorkers : workers[w] = None
    /\ sender_alive' = FALSE
    /\ main_pc' = "dropped"
    /\ UNCHANGED <<width, height, blocks, next_block, workers, channel, coll_pc,
                   target, result, rendered_by, received, updated>>
    /\ UNCHANGED notRenderVars

\* one iteration of the collector's loop up to P::update: receive a tile and
\* copy its pixels
CollectorReceive ==
    /\ coll_pc = "recv"
    /\ channel # <<>>
    /\ target' = write_block(target, Head(channel).block, Head(channel).data)
    /\ received' = Append(received, Head(channel).block)
    /\ channel' = Tail(channel)
    /\ coll_pc' = "update"
    /\ UNCHANGED <<width, height, main_pc, blocks, next_block, workers, sender_alive,
                   result, rendered_by, updated>>
    /\ UNCHANGED notRenderVars

\* P::update is called twice for the tile
update_called_twice(calls, block) == Append(Append(calls, block), block)

\* P::update(&mut progress_handler, block, &pixels): the calls so far
update_called(calls, block) == Append(calls, block)

\* the end of the iteration: the progress handler is updated with the tile
\* whose pixels were copied
CollectorUpdate ==
    /\ coll_pc = "update"
    /\ updated' = update_called(updated, received[Len(received)])
    /\ coll_pc' = "recv"
    /\ UNCHANGED <<width, height, main_pc, blocks, next_block, workers, channel,
                   sender_alive, target, result, rendered_by, received>>
    /\ UNCHANGED notRenderVars

\* the receiver iterator ends and the collector returns target
CollectorReturn ==
    /\ coll_pc = "recv"
    /\ channel_closed(channel, sender_alive)
    /\ coll_pc' = "returned"
    /\ UNCHANGED <<width, height, main_pc, blocks, next_block, workers, channel,
                   sender_alive, target, result, rendered_by, received, updated>>
    /\ UNCHANGED notRenderVars

\* collector_handle.join() gives the image, render returns it
Join ==
    /\ main_pc = "dropped"
    /\ coll_pc = "returned"
    /\ main_pc' = "returned"
    /\ result' = Some(target)
    /\ UNCHANGED <<width, height, blocks, next_block, workers, channel, sender_alive,
                   coll_pc, target, rendered_by, received, updated>>
    /\ UNCHANGED notRenderVars

WorkerStep == \E w \in 1..NumWorkers : WorkerRender(w) \/ WorkerSend(w)

CollectorStep == CollectorStart \/ CollectorReceive \/ CollectorUpdate \/ CollectorReturn

MainStep == SpawnCollector \/ Shuffle \/ DropSender \/ Join

NextRender ==
    \/ SpawnCollector
    \/ CollectorStart
    \/ Shuffle
    \/ \E w \in 1..NumWorkers : WorkerRender(w)
    \/ \E w \in 1..NumWorkers : WorkerSend(w)
    \/ DropSender
    \/ CollectorReceive
    \/ CollectorUpdate
    \/ CollectorReturn
    \/ Join

\* every thread that can run eventually runs (the OS and rayon schedule them);
\* a worker's render step ends because calculate_pixel ends under SampleCount
InitRenderSpec == InitRender /\ PixelIdle /\ SplitIdle /\ BvhIdle /\ OthersIdle

SpecRender ==
    /\ InitRenderSpec
    /\ [][NextRender]_vars
    /\ WF_vars(WorkerStep)
    /\ WF_vars(CollectorStep)
    /\ WF_vars(MainStep)

\* ------------------------------------------------------------------------
\* BVH::new and first_hit on small scenes
\* ------------------------------------------------------------------------

\* the objects scenes are made of: a square in the plane z = 0, a square
\* behind it, a square facing x, a larger camera-only square in the plane
\* z = 0, and two planes (not finite: they go to global_ids), one of them the
\* plane z = 0
ObjectPool ==
    { Object("Square", <<0, 0, 0>>, 1, "Z", FALSE),
      Object("Square", <<0, 0, 1>>, 1, "Z", FALSE),
      Object("Square", <<2, 0, 0>>, 1, "X", FALSE),
      Object("Square", <<0, 0, 0>>, 2, "Z", TRUE),
      Object("Plane", <<0, 0, 0>>, 1, "Z", FALSE),
      Object("Plane", <<0, 0, 2>>, 1, "Z", FALSE) }

Scenes == UNION { [1..n -> ObjectPool] : n \in 0..MaxObjects }

Strategies ==
    { SplitLargestAxis, SurfaceAreaHeuristic(None), SurfaceAreaHeuristic(Some(2)) }

\* the rays of the queries: directions in the plane y = 0
Rays ==
    { Ray(<<x, y, z>>, <<dx, 0, dz>>) :
        x \in {-1, 0, 1, 3}, y \in {0, 1}, z \in {-1, 0, 2},
        dx \in {-1, 0, 1}, dz \in {-1, 0, 1} } \ { Ray(<<x, y, z>>, <<0, 0, 0>>) :
        x \in {-1, 0, 1, 3}, y \in {0, 1}, z \in {-1, 0, 2} }

InitBvh ==
    /\ objects \in Scenes
    /\ strategy \in Strategies
    /\ bvh_pc = "new"
    /\ ids = <<>>
    /\ global_ids = <<>>
    /\ nodes = <<>>
    /\ todo = <<>>
    /\ query = None
    /\ bvh_hit = None

\* BVH::new up to the first call of split
BvhNew ==
    /\ bvh_pc = "new"
    /\ LET all_ids == [k \in 1..Len(objects) |-> k - 1]
           pred == [id \in 0..(Len(objects) - 1) |-> shape_box_is_finite(At(objects, id).shape)]
           parted == partition(all_ids, pred)
           global_start == parted[2]
           finite_ids == SubSeq(parted[1], 1, global_start)
       IN  /\ global_ids' = SubSeq(parted[1], global_start + 1, Len(all_ids))
           /\ IF Len(finite_ids) = 0
              THEN /\ ids' = <<>>
                   /\ nodes' = <<>>
                   /\ todo' = <<>>
                   /\ bvh_pc' = "built"
              ELSE /\ ids' = finite_ids
                   /\ nodes' = <<build_leaf(objects, finite_ids, 0, Len(finite_ids))>>
                   /\ todo' = <<0>>
                   /\ bvh_pc' = "split"
    /\ UNCHANGED <<objects, strategy, query, bvh_hit>>
    /\ UNCHANGED notBvhVars

\* one call of Builder::split; its two recursive calls are the next steps,
\* the left child first
BvhSplit ==
    /\ bvh_pc = "split"
    /\ todo # <<>>
    /\ LET done == split(objects, strategy, ids, nodes, Head(todo))
       IN  /\ ids' = done.ids
           /\ nodes' = done.nodes
           /\ todo' = done.children \o Tail(todo)
    /\ UNCHANGED <<objects, strategy, bvh_pc, global_ids, query, bvh_hit>>
    /\ UNCHANGED notBvhVars

\* builder.check(&global_ids), then BVH::new returns
BvhCheck ==
    /\ bvh_pc = "split"
    /\ todo = <<>>
    /\ bvh_pc' = IF check(objects, ids, nodes, global_ids) THEN "built" ELSE "panic"
    /\ UNCHANGED <<objects, strategy, ids, global_ids, nodes, todo, query, bvh_hit>>
    /\ UNCHANGED notBvhVars

\* the BVH that BVH::new returned
TheBVH == [ids |-> ids, nodes |-> nodes, global_ids |-> global_ids]

\* one call of first_hit on the built BVH
BvhQuery ==
    /\ bvh_pc = "built"
    /\ query = None
    /\ \E ray \in Rays, is_camera_ray \in BOOLEAN :
        /\ query' = Some([ray |-> ray, is_camera_ray |-> is_camera_ray])
        /\ bvh_hit' = BVH_first_hit(TheBVH, objects, ray, is_camera_ray)
    /\ UNCHANGED <<objects, strategy, bvh_pc, ids, global_ids, nodes, todo>>
    /\ UNCHANGED notBvhVars

NextBuild == BvhNew \/ BvhSplit \/ BvhCheck

InitBvhSpec == InitBvh /\ PixelIdle /\ SplitIdle /\ RenderIdle /\ OthersIdle

\* BVH::new on every scene and strategy
SpecBuild == InitBvhSpec /\ [][NextBuild]_vars

NextBvh == BvhNew \/ BvhSplit \/ BvhCheck \/ BvhQuery

\* BVH::new, then one first_hit
SpecBVH == InitBvhSpec /\ [][NextBvh]_vars

\* ------------------------------------------------------------------------
\* trace_ray and sample_lights (cpu/renderer.rs)
\* ------------------------------------------------------------------------

\* the largest settings.max_bounces of the model
MaxBounces == 2

\* a material, reduced to whether its type is Fixed and whether it emits
Material(fixed, light) == [fixed |-> fixed, light |-> light]

\* the objects of the traced scenes with their materials: a diffuse square, a
\* sphere light, a square light, a camera-only square and a camera-only plane
\* (both Fixed), a diffuse plane, and a Fixed square that every ray sees
TracePool ==
    { <<Object("Square", <<0, 0, 0>>, 1, "Z", FALSE), Material(FALSE, FALSE)>>,
      <<Object("Sphere", <<0, 0, 2>>, 1, "Z", FALSE), Material(FALSE, TRUE)>>,
      <<Object("Square", <<2, 0, 0>>, 1, "X", FALSE), Material(FALSE, TRUE)>>,
      <<Object("Square", <<0, 0, 0>>, 2, "Z", TRUE), Material(TRUE, FALSE)>>,
      <<Object("Plane", <<0, 0, 2>>, 1, "Z", TRUE), Material(TRUE, FALSE)>>,
      <<Object("Plane", <<0, 0, 0>>, 1, "Z", FALSE), Material(FALSE, FALSE)>>,
      <<Object("Square", <<0, 0, 1>>, 1, "Z", FALSE), Material(TRUE, FALSE)>> }

\* the traced scenes: at most two objects
TraceScenes ==
    {<<>>} \cup { <<a>> : a \in TracePool } \cup { <<a, b>> : a, b \in TracePool }

\* the rays of trace_ray and sample_lights.  The start of a secondary ray is
\* a hit point moved by SHADOW_BIAS and its direction comes from the rng: the
\* model lets every secondary ray be any of these rays.
TraceRays ==
    { Ray(<<x, 0, z>>, d) : x \in {0, 1, 3}, z \in {-1, 0, 3},
                            d \in { <<0, 0, 1>>, <<0, 0, -1>>, <<1, 0, 0>>, <<-1, 0, 0>> } }

\* the pre-filtered lights of render: the ids of the objects that emit
lights_of(mats) == { id \in 0..(Len(mats) - 1) : At(mats, id).light }

\* lights[index]: the pre-filtered list is in the order of scene.objects
light_at(mats, index) ==
    CHOOSE id \in lights_of(mats) :
        Cardinality({ l \in lights_of(mats) : l < id }) = index

\* the points of the unit sphere that the model lets UnitSphere.sample draw
SpherePoles ==
    { <<1, 0, 0>>, <<-1, 0, 0>>, <<0, 1, 0>>, <<0, -1, 0>>, <<0, 0, 1>>, <<0, 0, -1>> }

\* Object::sample: the targets on the light, transform * (origin + vec)
sample_targets(light) == { TransformPoint(light, q) : q \in SpherePoles }

\* direction: (target - next_start).normalized() is the direction of the ray
aimed_at(ray, aim) ==
    /\ VDot(VSub(aim, ray.start), ray.direction) > 0
    /\ VSub(aim, ray.start)
           = VScale(ray.direction, VDot(VSub(aim, ray.start), ray.direction))

\* the light rays of sample_lights for one light: next_start is any start of
\* the model from which a target lies along an axis
light_rays(light) ==
    { ray \in TraceRays : \E aim \in sample_targets(light) : aimed_at(ray, aim) }

\* the is_camera_ray argument of the three places that trace a ray
primary_is_camera_ray == TRUE
next_is_camera_ray == FALSE
shadow_is_camera_ray == FALSE

\* the bounces_left argument of the recursive call
next_bounces_left_unchanged(bounces_left) == bounces_left

next_bounces_left(bounces_left) == bounces_left - 1

\* one call of trace_ray: its arguments, where it is ("entry": called,
\* "lights": at the match on strategy, "next": in the recursive call), and
\* the number of lights sample_lights has handled
Frame(is_camera_ray, bounces_left) ==
    [is_camera_ray |-> is_camera_ray, bounces_left |-> bounces_left,
     pc |-> "entry", light_index |-> 0, shadows |-> <<>>]

Top == stack[Len(stack)]

\* the stack with the innermost call at `pc`
AtPc(pc, light_index) ==
    [stack EXCEPT ![Len(stack)] = [Top EXCEPT !.pc = pc, !.light_index = light_index]]

\* the innermost call returns
TraceReturns ==
    /\ stack' = SubSeq(stack, 1, Len(stack) - 1)
    /\ trace_pc' = IF Len(stack) = 1 THEN "returned" ELSE "running"

\* the id of an Option<ObjectHit>
hit_id(h) == IF h.some THEN Some(h.v.id) ELSE None

\* Some(ObjectHit { id: object, .. }) if object == light_id
light_unobstructed(h, light_id) == h.some /\ h.v.id = light_id

\* one round of the loop of sample_lights: the light, the id that
\* accel.first_hit answered, the id of the nearest hit among the objects
\* that filter_fixed_camera_only(false) accepts, and whether the light's
\* contribution was added to result
ShadowRay(light_id, h, nearest) ==
    [light |-> light_id, hit |-> hit_id(h), nearest |-> hit_id(nearest),
     added |-> light_unobstructed(h, light_id)]

\* the stack after one more round of the loop of sample_lights
AfterShadowRay(shadow) ==
    [stack EXCEPT ![Len(stack)] = [Top EXCEPT !.light_index = Top.light_index + 1,
                                              !.shadows = Append(Top.shadows, shadow)]]

\* the object a ray meets first when no filter is applied is camera-only
meets_camera_only(unfiltered) ==
    unfiltered.some /\ At(objects, unfiltered.v.id).camera_only

Query(kind, is_camera_ray, h, unfiltered) ==
    Some([kind |-> kind, is_camera_ray |-> is_camera_ray, hit |-> hit_id(h),
          hidden |-> meets_camera_only(unfiltered)])

InitTrace ==
    /\ \E scene \in TraceScenes :
        /\ objects = [k \in 1..Len(scene) |-> scene[k][1]]
        /\ materials = [k \in 1..Len(scene) |-> scene[k][2]]
    /\ strategy \in Strategies
    /\ bvh_pc = "new"
    /\ ids = <<>>
    /\ global_ids = <<>>
    /\ nodes = <<>>
    /\ todo = <<>>
    /\ query = None
    /\ bvh_hit = None
    /\ max_bounces \in 0..MaxBounces
    /\ light_strategy \in {"Simple", "SampleLights"}
    /\ stack = <<>>
    /\ trace_pc = "ready"
    /\ last_query = None
    /\ trace_calls = 0
    /\ accel_queries = 0

\* calculate_pixel calls trace_ray with the primary ray
TracePrimary ==
    /\ bvh_pc = "built"
    /\ trace_pc = "ready"
    /\ stack' = <<Frame(primary_is_camera_ray, max_bounces)>>
    /\ trace_pc' = "running"
    /\ trace_calls' = trace_calls + 1
    /\ UNCHANGED <<materials, max_bounces, light_strategy, last_query, accel_queries>>
    /\ UNCHANGED <<bvhVars, notTraceVars>>

\* if bounces_left == 0 { return black }
TraceBlack ==
    /\ trace_pc = "running"
    /\ Top.pc = "entry"
    /\ Top.bounces_left = 0
    /\ TraceReturns
    /\ UNCHANGED <<materials, max_bounces, light_strategy, last_query, trace_calls,
                   accel_queries>>
    /\ UNCHANGED <<bvhVars, notTraceVars>>

\* trace_ray after accel.first_hit returned h: the sky, a Fixed material
\* with its debug assertion, or any other material
TraceHit(h, unfiltered) ==
    /\ last_query' = Query("trace", Top.is_camera_ray, h, unfiltered)
    /\ IF ~h.some THEN TraceReturns
       ELSE IF At(materials, h.v.id).fixed
       THEN IF Top.is_camera_ray \/ ~At(objects, h.v.id).camera_only
            THEN TraceReturns
            ELSE stack' = stack /\ trace_pc' = "panic"
       ELSE stack' = AtPc("lights", 0) /\ trace_pc' = "running"

\* trace_ray from accel.first_hit to the match on strategy
TraceQuery ==
    /\ trace_pc = "running"
    /\ Top.pc = "entry"
    /\ Top.bounces_left # 0
    /\ \E ray \in TraceRays :
        TraceHit(BVH_first_hit(TheBVH, objects, ray, Top.is_camera_ray),
                 NoAccel_first_hit(objects, ray, TRUE))
    /\ accel_queries' = accel_queries + 1
    /\ UNCHANGED <<materials, max_bounces, light_strategy, trace_calls>>
    /\ UNCHANGED <<bvhVars, notTraceVars>>

\* the light ray of sample_lights for the light light_id, after
\* accel.first_hit returned h
ShadowHit(light_id, h, nearest, unfiltered) ==
    /\ last_query' = Query("shadow", shadow_is_camera_ray, h, unfiltered)
    /\ stack' = AfterShadowRay(ShadowRay(light_id, h, nearest))
    /\ trace_pc' = trace_pc

\* one round of the loop of sample_lights: light.sample, which asserts that
\* the light is a Sphere, and the light ray
SampleLight(light_id) ==
    IF At(objects, light_id).shape # "Sphere"
    THEN trace_pc' = "sample_panic" /\ UNCHANGED <<stack, last_query>>
    ELSE \E ray \in light_rays(At(objects, light_id)) :
            ShadowHit(light_id,
                      BVH_first_hit(TheBVH, objects, ray, shadow_is_camera_ray),
                      NoAccel_first_hit(objects, ray, shadow_is_camera_ray),
                      NoAccel_first_hit(objects, ray, TRUE))

\* one round of the loop of sample_lights
TraceShadowRay ==
    /\ trace_pc = "running"
    /\ Top.pc = "lights"
    /\ light_strategy = "SampleLights"
    /\ Top.light_index < Cardinality(lights_of(materials))
    /\ SampleLight(light_at(materials, Top.light_index))
    /\ UNCHANGED <<materials, max_bounces, light_strategy, trace_calls, accel_queries>>
    /\ UNCHANGED <<bvhVars, notTraceVars>>

\* the recursive call for next_ray: after the loop of sample_lights, or
\* without it (Strategy::Simple, or sample.diffuse_fraction == 0.0)
TraceNext ==
    /\ trace_pc = "running"
    /\ Top.pc = "lights"
    /\ Top.light_index \in {0, Cardinality(lights_of(materials))}
    /\ stack' = Append(AtPc("next", Top.light_index),
                       Frame(next_is_camera_ray, next_bounces_left(Top.bounces_left)))
    /\ trace_calls' = trace_calls + 1
    /\ UNCHANGED <<materials, max_bounces, light_strategy, trace_pc, last_query,
                   accel_queries>>
    /\ UNCHANGED <<bvhVars, notTraceVars>>

\* the recursive call has returned: trace_ray returns its color
TraceResult ==
    /\ trace_pc = "running"
    /\ Top.pc = "next"
    /\ TraceReturns
    /\ UNCHANGED <<materials, max_bounces, light_strategy, last_query, trace_calls,
                   accel_queries>>
    /\ UNCHANGED <<bvhVars, notTraceVars>>

NextTrace ==
    \/ BvhNew
    \/ BvhSplit
    \/ BvhCheck
    \/ TracePrimary
    \/ TraceBlack
    \/ TraceQuery
    \/ TraceShadowRay
    \/ TraceNext
    \/ TraceResult

InitTraceSpec ==
    InitTrace /\ PixelIdle /\ SplitIdle /\ RenderIdle /\ ProgressIdle /\ CallIdle /\ PathIdle

\* BVH::new, then the trace_ray of one primary ray
SpecTrace == InitTraceSpec /\ [][NextTrace]_vars

\* ------------------------------------------------------------------------
\* Progress handlers (tev.rs, common/progress.rs)
\* ------------------------------------------------------------------------

\* the state of a TevProgress, with the history of its client
TevState(client, sent, failed, attempts) ==
    [client |-> client, sent |-> sent, failed |-> failed, attempts |-> attempts]

\* a try_send that keeps the client after a failed send
try_send_keeps_client(tev, packet, ok) ==
    IF ~tev.client THEN tev
    ELSE IF ok THEN TevState(TRUE, Append(tev.sent, packet), tev.failed, tev.attempts + 1)
    ELSE TevState(TRUE, tev.sent, TRUE, tev.attempts + 1)

\* TevProgress::try_send; `ok` is whether client.send returns Ok
try_send(tev, packet, ok) ==
    IF ~tev.client THEN tev
    ELSE IF ok THEN TevState(TRUE, Append(tev.sent, packet), tev.failed, tev.attempts + 1)
    ELSE TevState(FALSE, tev.sent, TRUE, tev.attempts + 1)

\* the packets
PacketCloseImage == <<"close">>
PacketCreateImage(w, h) == <<"create", w, h>>
PacketUpdateImage(block) == <<"update", block>>

\* <TevProgress as ProgressHandler>::init
tev_init(tev, w, h, ok_close, ok_create) ==
    try_send(try_send(tev, PacketCloseImage, ok_close), PacketCreateImage(w, h), ok_create)

\* <TevProgress as ProgressHandler>::update
tev_update(tev, block, ok) == try_send(tev, PacketUpdateImage(block), ok)

\* <PrintProgress as ProgressHandler>::update, reduced to the blocks it saw
print_update(seen, block) == Append(seen, block)

TheTev == TevState(tev_client, tev_sent, tev_failed, tev_attempts)

SetTev(tev) ==
    /\ tev_client' = tev.client
    /\ tev_sent' = tev.sent
    /\ tev_failed' = tev.failed
    /\ tev_attempts' = tev.attempts

\* the image sizes of the renders with progress handlers: one tile to six
ProgressSizes == { <<w, h>> : w \in {1, BlockSize + 1, MaxWidth}, h \in {1, MaxHeight} }

\* render was called with CombinedProgress::new(PrintProgress,
\* TevProgress::new(name, client)) and the tiles are in the channel
InitProgress ==
    /\ progress_size \in ProgressSizes
    /\ progress_pc = "init"
    /\ tev_client = TRUE
    /\ tev_sent = <<>>
    /\ tev_failed = FALSE
    /\ tev_attempts = 0
    /\ print_updates = <<>>
    /\ tiles_left = split_into_blocks(progress_size[1], progress_size[2])

\* self.progress_handler.init(width, height): CombinedProgress::init
ProgressInit ==
    /\ progress_pc = "init"
    /\ \E ok_close, ok_create \in BOOLEAN :
        SetTev(tev_init(TheTev, progress_size[1], progress_size[2], ok_close, ok_create))
    /\ progress_pc' = "update"
    /\ UNCHANGED <<progress_size, print_updates, tiles_left>>
    /\ UNCHANGED notProgressVars

\* one round of the collector's loop: P::update(&mut progress_handler, block,
\* &pixels) with CombinedProgress::update, the left handler first
ProgressUpdate ==
    /\ progress_pc = "update"
    /\ tiles_left # <<>>
    /\ print_updates' = print_update(print_updates, Head(tiles_left))
    /\ \E ok \in BOOLEAN : SetTev(tev_update(TheTev, Head(tiles_left), ok))
    /\ tiles_left' = Tail(tiles_left)
    /\ UNCHANGED <<progress_pc, progress_size>>
    /\ UNCHANGED notProgressVars

\* the channel is closed and empty: the collector returns the image
ProgressReturn ==
    /\ progress_pc = "update"
    /\ tiles_left = <<>>
    /\ progress_pc' = "returned"
    /\ UNCHANGED <<progress_size, tev_client, tev_sent, tev_failed, tev_attempts,
                   print_updates, tiles_left>>
    /\ UNCHANGED notProgressVars

NextProgress == ProgressInit \/ ProgressUpdate \/ ProgressReturn

InitProgressSpec ==
    InitProgress /\ PixelIdle /\ SplitIdle /\ RenderIdle /\ BvhIdle /\ TraceIdle /\ CallIdle /\ PathIdle

\* the progress handlers of one render; the collector keeps running
SpecProgress == InitProgressSpec /\ [][NextProgress]_vars /\ WF_vars(NextProgress)

\* ------------------------------------------------------------------------
\* Sphere, cylinder and triangle; Object::intersect with its checks
\* (cpu/geometry.rs, common/math.rs)
\* ------------------------------------------------------------------------

\* the largest finite value of the f32 of this section: it stands for
\* f32::MAX, and a result beyond it is +inf or -inf
FloatMax == 100

\* a coordinate whose square is beyond FloatMax
FarAway == FloatMax \div 9

\* the f32 of an exact result v
Round(v) == IF v > FloatMax THEN PosInf ELSE IF v < -FloatMax THEN NegInf ELSE Fin(v)

FNeg(a) == IF IsFinite(a) THEN Fin(-a[2]) ELSE IF IsNaN(a) THEN NaN ELSE <<"inf", -a[2]>>

\* -1, 0 or 1
Sign(a) == IF IsFinite(a) THEN (IF a[2] > 0 THEN 1 ELSE IF a[2] < 0 THEN -1 ELSE 0) ELSE a[2]

\* a + b of f32: inf + -inf is NaN
FAdd(a, b) ==
    IF IsNaN(a) \/ IsNaN(b) THEN NaN
    ELSE IF IsFinite(a) /\ IsFinite(b) THEN Round(a[2] + b[2])
    ELSE IF IsFinite(a) THEN b
    ELSE IF IsFinite(b) \/ a = b THEN a
    ELSE NaN

FSub(a, b) == FAdd(a, FNeg(b))

\* a * b of f32: inf * 0 is NaN
FMul(a, b) ==
    IF IsNaN(a) \/ IsNaN(b) THEN NaN
    ELSE IF IsFinite(a) /\ IsFinite(b) THEN Round(a[2] * b[2])
    ELSE IF Sign(a) * Sign(b) = 0 THEN NaN
    ELSE <<"inf", Sign(a) * Sign(b)>>

\* f32::sqrt; the finite arguments of the model are 0 and 1
FSqrt(a) ==
    IF IsNaN(a) \/ Sign(a) < 0 THEN NaN
    ELSE IF IsFinite(a) THEN Fin(CHOOSE r \in 0..a[2] : r * r = a[2])
    ELSE PosInf

\* a / b of f32; the finite divisors of the model are 0 and 1
FQuot(a, b) ==
    IF IsNaN(a) \/ IsNaN(b) THEN NaN
    ELSE IF IsFinite(b) /\ b[2] # 0 THEN FMul(a, b)
    ELSE IF IsFinite(b) THEN (IF Sign(a) = 0 THEN NaN ELSE <<"inf", Sign(a)>>)
    ELSE IF IsFinite(a) THEN Fin(0)
    ELSE NaN

\* a vector of f32 from a vector of integers
FVec(v) == <<Fin(v[1]), Fin(v[2]), Fin(v[3])>>

FVAdd(a, b) == <<FAdd(a[1], b[1]), FAdd(a[2], b[2]), FAdd(a[3], b[3])>>
FVScale(a, k) == <<FMul(a[1], k), FMul(a[2], k), FMul(a[3], k)>>
FVDiv(a, k) == <<FQuot(a[1], k), FQuot(a[2], k), FQuot(a[3], k)>>

\* Vec3::dot, Norm::norm_squared, Norm::norm
dot(a, b) == FAdd(FAdd(FMul(a[1], b[1]), FMul(a[2], b[2])), FMul(a[3], b[3]))
norm_squared(a) == dot(a, a)
norm(a) == FSqrt(norm_squared(a))

\* Norm::try_normalized: None if the norm is 0.0 (a NaN norm is not 0.0)
try_normalized(a) == IF norm(a) = Fin(0) THEN None ELSE Some(FVDiv(a, norm(a)))

\* v != v of a point or vector: one of its components is NaN
HasNaN(v) == IsNaN(v[1]) \/ IsNaN(v[2]) \/ IsNaN(v[3])

\* Ray::at on f32
ray_at(start, direction, t) == FVAdd(start, FVScale(direction, t))

\* what an intersector did: it panicked, or it returned `hit`
Panicked == [panic |-> TRUE, hit |-> None]
Returned(hit) == [panic |-> FALSE, hit |-> hit]

\* if d < 0.0 || (c > 0.0 && b > 0.0) { return None }
root_rejected(b, c, d) == FLt(d, Fin(0)) \/ (FLt(Fin(0), c) /\ FLt(Fin(0), b))

\* let t = if t_near >= 0.0 { t_near } else { t_far }
chosen_root(b, d) ==
    IF FLe(Fin(0), FSub(FNeg(b), FSqrt(d))) THEN FSub(FNeg(b), FSqrt(d))
    ELSE FAdd(FNeg(b), FSqrt(d))

\* sphere_intersect from the renormalisation on
sphere_hit(t, renormalised) ==
    IF renormalised.some THEN Some(Hit(t, renormalised.v, renormalised.v)) ELSE None

sphere_at(start, direction, t) == sphere_hit(t, try_normalized(ray_at(start, direction, t)))

sphere_roots(start, direction, b, c) ==
    IF root_rejected(b, c, FSub(FMul(b, b), c)) THEN None
    ELSE sphere_at(start, direction, chosen_root(b, FSub(FMul(b, b), c)))

\* sphere_intersect
sphere_intersect(ray) ==
    Returned(sphere_roots(FVec(ray.start), FVec(ray.direction),
                          dot(FVec(ray.start), FVec(ray.direction)),
                          FSub(norm_squared(FVec(ray.start)), Fin(1))))

\* the xz part of a vector, as a vector with y = 0
xz(v) == <<v[1], Fin(0), v[3]>>

\* cylinder_intersect from `let mut point = ray.at(t)` on; normal is None
\* where normalized() panics
cylinder_hit(t, point, normal) ==
    IF ~normal.some THEN Panicked
    ELSE IF HasNaN(<<normal.v[1], point[2], normal.v[3]>>) THEN Returned(None)
    ELSE Returned(Some(Hit(t, <<normal.v[1], point[2], normal.v[3]>>, normal.v)))

cylinder_at(start, direction, t) ==
    cylinder_hit(t, ray_at(start, direction, t),
                 try_normalized(xz(ray_at(start, direction, t))))

cylinder_roots(start, direction, dir_2d, dir_2d_norm, b, c) ==
    IF root_rejected(b, c, FSub(FMul(b, b), c)) THEN Returned(None)
    ELSE cylinder_at(start, direction,
                     FQuot(chosen_root(b, FSub(FMul(b, b), c)), dir_2d_norm))

cylinder_2d(start, direction, dir_2d, dir_2d_norm) ==
    cylinder_roots(start, direction, dir_2d, dir_2d_norm,
                   dot(xz(start), dir_2d), FSub(norm_squared(xz(start)), Fin(1)))

\* cylinder_intersect: normalized_and_get panics on a zero vector
cylinder_intersect(ray) ==
    IF norm(xz(FVec(ray.direction))) = Fin(0) THEN Panicked
    ELSE cylinder_2d(FVec(ray.start), FVec(ray.direction),
                     FVDiv(xz(FVec(ray.direction)), norm(xz(FVec(ray.direction)))),
                     norm(xz(FVec(ray.direction))))

\* a Hit of the integer arithmetic as a Hit of f32
FHit(hit) ==
    IF hit.some THEN Some(Hit(Fin(hit.v.t), FVec(hit.v.point), FVec(hit.v.normal))) ELSE None

\* triangle_intersect
triangle_intersect(ray) ==
    IF plane_intersect(ray).some
       /\ square_contains(plane_intersect(ray).v.point[1], 1)
       /\ square_contains(plane_intersect(ray).v.point[2], 1)
       /\ plane_intersect(ray).v.point[1] + plane_intersect(ray).v.point[2] < 1
    THEN plane_intersect(ray) ELSE None

\* the match on shape of intersect_transformed_shape
shape_intersect(shape, ray) ==
    IF shape = "Sphere" THEN sphere_intersect(ray)
    ELSE IF shape = "Cylinder" THEN cylinder_intersect(ray)
    ELSE IF shape = "Plane" THEN Returned(FHit(plane_intersect(ray)))
    ELSE IF shape = "Triangle" THEN Returned(FHit(triangle_intersect(ray)))
    ELSE Returned(FHit(square_intersect(ray, 1)))

\* the three debug assertions of check_hit hold
hit_is_valid(hit) == FLe(Fin(0), hit.t) /\ ~HasNaN(hit.normal) /\ ~HasNaN(hit.point)

\* check_hit
check_hit(hit) == hit.some => hit_is_valid(hit.v)

\* Rotate on f32 (a permutation of the components)
FRotate(facing, v) == IF facing = "Z" THEN v ELSE <<v[3], v[1], v[2]>>

\* Hit::transform for a transform of scale 1
hit_transform(object, hit) ==
    IF hit.some
    THEN Some(Hit(hit.v.t, FVAdd(FVec(object.at), FRotate(object.facing, hit.v.point)),
                  FRotate(object.facing, hit.v.normal)))
    ELSE None

\* what Object::intersect did: the object-space hit, the world-space hit it
\* returned, and whether it panicked; a failed check_hit panics in a build
\* with debug assertions
Outcome(panic, obj_hit, world_hit) ==
    [panic |-> panic, obj_hit |-> obj_hit, world_hit |-> world_hit]

intersect_checked(object, debug, obj, world_hit) ==
    IF obj.panic THEN Outcome(TRUE, None, None)
    ELSE Outcome(debug /\ ~(check_hit(obj.hit) /\ check_hit(world_hit)), obj.hit, world_hit)

intersect_object_space(object, debug, obj) ==
    intersect_checked(object, debug, obj, hit_transform(object, obj.hit))

\* intersect_transformed_shape
intersect_transformed_shape(object, ray, debug) ==
    intersect_object_space(object, debug, shape_intersect(object.shape, InvTransformRay(object, ray)))

\* the objects that are intersected: every shape, at the origin or moved,
\* with either rotation, scale 1
IntersectObjects ==
    { Object(shape, at, 1, facing, FALSE) :
        shape \in {"Sphere", "Plane", "Triangle", "Square", "Cylinder"},
        at \in { <<0, 0, 0>>, <<1, 0, 0>> }, facing \in {"Z", "X"} }

\* the rays: starts near the object and far from it, unit directions along
\* the axes
IntersectCoords == {-FarAway, -2, -1, 0, 1}
IntersectDirections ==
    { <<1, 0, 0>>, <<-1, 0, 0>>, <<0, 1, 0>>, <<0, -1, 0>>, <<0, 0, 1>>, <<0, 0, -1>> }
IntersectRays ==
    { Ray(<<x, y, z>>, d) : x \in IntersectCoords, y \in {-1, 0, 1}, z \in IntersectCoords,
                             d \in IntersectDirections }

InitIntersect ==
    /\ \E object \in IntersectObjects, ray \in IntersectRays, debug \in BOOLEAN :
        args = Some([object |-> object, ray |-> ray, debug |-> debug])
    /\ returned = None

\* one call of Object::intersect
IntersectCall ==
    /\ args.some
    /\ returned = None
    /\ returned' = Some(intersect_transformed_shape(args.v.object, args.v.ray, args.v.debug))
    /\ UNCHANGED args
    /\ UNCHANGED notCallVars

NextIntersect == IntersectCall

InitIntersectSpec ==
    InitIntersect /\ PixelIdle /\ SplitIdle /\ RenderIdle /\ BvhIdle /\ TraceIdle /\ ProgressIdle /\ PathIdle

\* Object::intersect on every object and ray
SpecIntersect == InitIntersectSpec /\ [][NextIntersect]_vars

\* ------------------------------------------------------------------------
\* AxisBox::intersects on its own (cpu/accel/bvh.rs)
\* ------------------------------------------------------------------------

\* the boxes: the cube of the test aabb_intersect, the box of a unit square,
\* and a box off the origin
IntersectedBoxes ==
    { AxisBox(<<-1, -1, -1>>, <<1, 1, 1>>),
      AxisBox(<<0, 0, 0>>, <<1, 1, 0>>),
      AxisBox(<<1, 0, -1>>, <<2, 2, 0>>) }

\* the rays: every direction with components in {-1, 0, 1}
BoxRays ==
    { Ray(<<x, y, z>>, <<dx, dy, dz>>) :
        x \in {-2, -1, 0, 2}, y \in {-1, 0, 2}, z \in {-4, -1, 0, 1, 2},
        dx \in {-1, 0, 1}, dy \in {-1, 0, 1}, dz \in {-1, 0, 1} }
    \ { Ray(<<x, y, z>>, <<0, 0, 0>>) :
        x \in {-2, -1, 0, 2}, y \in {-1, 0, 2}, z \in {-4, -1, 0, 1, 2} }

InitBox ==
    /\ \E box \in IntersectedBoxes, ray \in BoxRays : args = Some([box |-> box, ray |-> ray])
    /\ returned = None

\* one call of AxisBox::intersects
BoxCall ==
    /\ args.some
    /\ returned = None
    /\ returned' = Some(box_intersects(args.v.box, args.v.ray))
    /\ UNCHANGED args
    /\ UNCHANGED notCallVars

NextBox == BoxCall

InitBoxSpec ==
    InitBox /\ PixelIdle /\ SplitIdle /\ RenderIdle /\ BvhIdle /\ TraceIdle /\ ProgressIdle /\ PathIdle

\* AxisBox::intersects on every box and ray
SpecBox == InitBoxSpec /\ [][NextBox]_vars

\* ------------------------------------------------------------------------
\* fast_powf (cpu/renderer.rs)
\* ------------------------------------------------------------------------

\* the f32 of this section are Fin(r) for a rational r, PosInf, NegInf, NaN

\* x == r, x > r, x < r of f32 for a rational r
EqualsRat(x, r) == IsFinite(x) /\ x[2] = r
AboveRat(x, r) == x = PosInf \/ (IsFinite(x) /\ RLt(r, x[2]))
BelowRat(x, r) == x = NegInf \/ (IsFinite(x) /\ RLt(x[2], r))

\* f32::is_infinite
is_infinite(x) == x = PosInf \/ x = NegInf

\* r to the power k for a rational r and a natural number k
RECURSIVE RPow(_, _)
RPow(r, k) == IF k = 0 THEN IntRat(1) ELSE RMul(r, RPow(r, k - 1))

\* f32::powf for a base >= 0 and a finite integer exponent
powf(base, exp) ==
    IF IsNaN(base) \/ IsNaN(exp) THEN NaN
    ELSE IF EqualsRat(exp, IntRat(0)) THEN Fin(IntRat(1))
    ELSE IF base = PosInf THEN (IF AboveRat(exp, IntRat(0)) THEN PosInf ELSE Fin(IntRat(0)))
    ELSE IF EqualsRat(base, IntRat(0))
    THEN (IF AboveRat(exp, IntRat(0)) THEN Fin(IntRat(0)) ELSE PosInf)
    ELSE IF AboveRat(exp, IntRat(0)) THEN Fin(RPow(base[2], exp[2][1]))
    ELSE Fin(RDiv(IntRat(1), RPow(base[2], -exp[2][1])))

\* the branches of fast_powf
fast_powf_value(base, exp) ==
    IF EqualsRat(base, IntRat(0)) \/ EqualsRat(base, IntRat(1)) \/ EqualsRat(exp, IntRat(1))
    THEN base
    ELSE IF is_infinite(exp)
    THEN (IF AboveRat(base, IntRat(1)) # BelowRat(exp, IntRat(0)) THEN PosInf
          ELSE Fin(IntRat(0)))
    ELSE powf(base, exp)

\* the two debug assertions of fast_powf hold
fast_powf_asserts(base, exp) ==
    /\ AboveRat(base, IntRat(0)) \/ EqualsRat(base, IntRat(0))
    /\ ~(EqualsRat(base, IntRat(0)) /\ EqualsRat(exp, IntRat(0)))

\* fast_powf: a failed debug assertion panics in a build with debug
\* assertions
fast_powf(base, exp, debug) ==
    IF debug /\ ~fast_powf_asserts(base, exp) THEN [panic |-> TRUE, value |-> NaN]
    ELSE [panic |-> FALSE, value |-> fast_powf_value(base, exp)]

\* the channels of medium.volumetric_color
PowBases ==
    { Fin(IntRat(0)), Fin(Rat(1, 4)), Fin(Rat(1, 2)), Fin(IntRat(1)), Fin(IntRat(2)),
      Fin(IntRat(3)), PosInf }

\* the t of color_exp: the t of a hit or infinity, and their negatives
PowExps ==
    { NegInf, Fin(IntRat(-2)), Fin(IntRat(-1)), Fin(IntRat(0)), Fin(IntRat(1)),
      Fin(IntRat(2)), Fin(IntRat(3)), PosInf }

InitPow ==
    /\ \E base \in PowBases, exp \in PowExps, debug \in BOOLEAN :
        args = Some([base |-> base, exp |-> exp, debug |-> debug])
    /\ returned = None

\* one call of fast_powf
PowCall ==
    /\ args.some
    /\ returned = None
    /\ returned' = Some(fast_powf(args.v.base, args.v.exp, args.v.debug))
    /\ UNCHANGED args
    /\ UNCHANGED notCallVars

NextPow == PowCall

InitPowSpec ==
    InitPow /\ PixelIdle /\ SplitIdle /\ RenderIdle /\ BvhIdle /\ TraceIdle /\ ProgressIdle /\ PathIdle

\* fast_powf on every base and exponent
SpecPow == InitPowSpec /\ [][NextPow]_vars

\* ------------------------------------------------------------------------
\* The size assertion of BVH::new (cpu/accel/bvh.rs)
\* ------------------------------------------------------------------------

\* a usize of 64 bits, of which the model needs the values up to 2^33: the
\* number hi * 2^16 + lo, with 0 <= lo < 2^16
Wide(hi, lo) == <<hi, lo>>

WideLt(a, b) == a[1] < b[1] \/ (a[1] = b[1] /\ a[2] < b[2])

\* u32::MAX as usize
u32_MAX == Wide(65535, 65535)

\* n as u32: the low 32 bits
as_u32(n) == Wide(n[1] % 65536, n[2])

\* n - 1 for n > 0
WidePred(n) == IF n[2] > 0 THEN Wide(n[1], n[2] - 1) ELSE Wide(n[1] - 1, 65535)

\* the condition of the assertion
size_accepted(len) == WideLt(len, u32_MAX)

\* the ids of BVH::new: SmallId { index: id } for id in 0..total_len, given
\* by the largest index
small_ids(total_len) ==
    [panic |-> FALSE, total_len |-> total_len,
     last |-> IF total_len = Wide(0, 0) THEN None ELSE Some(WidePred(total_len))]

\* BVH::new up to the collect of ids, for objects.len() = len
new_ids(len) ==
    IF ~size_accepted(len) THEN [panic |-> TRUE, total_len |-> Wide(0, 0), last |-> None]
    ELSE small_ids(as_u32(len))

\* the object counts: small ones and the ones around 2^32
ObjectCounts ==
    { Wide(hi, lo) : hi \in {0, 1, 2, 65534, 65535, 65536, 65537},
                     lo \in {0, 1, 2, 3, 65532, 65533, 65534, 65535} }

InitSize ==
    /\ \E len \in ObjectCounts : args = Some([len |-> len])
    /\ returned = None

\* BVH::new up to the collect of ids
SizeCall ==
    /\ args.some
    /\ returned = None
    /\ returned' = Some(new_ids(args.v.len))
    /\ UNCHANGED args
    /\ UNCHANGED notCallVars

NextSize == SizeCall

InitSizeSpec ==
    InitSize /\ PixelIdle /\ SplitIdle /\ RenderIdle /\ BvhIdle /\ TraceIdle /\ ProgressIdle /\ PathIdle

\* the size assertion of BVH::new on every object count
SpecSize == InitSizeSpec /\ [][NextSize]_vars

\* ------------------------------------------------------------------------
\* BVH::new on an object with any transform (cpu/accel/bvh.rs,
\* common/aabb.rs, common/math.rs)
\* ------------------------------------------------------------------------

\* Iterator::sum of four f32
Sum4(a, b, c, d) == FAdd(FAdd(FAdd(FAdd(Fin(0), a), b), c), d)

\* Matrix4::translate, Matrix4::scale: the rows of the matrix
matrix_translate(t) ==
    << <<Fin(1), Fin(0), Fin(0), t[1]>>, <<Fin(0), Fin(1), Fin(0), t[2]>>,
       <<Fin(0), Fin(0), Fin(1), t[3]>>, <<Fin(0), Fin(0), Fin(0), Fin(1)>> >>

matrix_scale(k) ==
    << <<k, Fin(0), Fin(0), Fin(0)>>, <<Fin(0), k, Fin(0), Fin(0)>>,
       <<Fin(0), Fin(0), k, Fin(0)>>, <<Fin(0), Fin(0), Fin(0), Fin(1)>> >>

\* Matrix4 * Matrix4
matrix_mul(a, b) ==
    [r \in 1..4 |-> [c \in 1..4 |->
        Sum4(FMul(a[r][1], b[1][c]), FMul(a[r][2], b[2][c]),
             FMul(a[r][3], b[3][c]), FMul(a[r][4], b[4][c]))]]

\* Matrix4 * [f32; 4]
matrix_mul_array(a, v) ==
    [r \in 1..4 |-> Sum4(FMul(a[r][1], v[1]), FMul(a[r][2], v[2]),
                         FMul(a[r][3], v[3]), FMul(a[r][4], v[4]))]

\* Transform * Point3, given the fwd matrix
transform_point(fwd, p) ==
    <<matrix_mul_array(fwd, <<p[1], p[2], p[3], Fin(1)>>)[1],
      matrix_mul_array(fwd, <<p[1], p[2], p[3], Fin(1)>>)[2],
      matrix_mul_array(fwd, <<p[1], p[2], p[3], Fin(1)>>)[3]>>

\* the fwd matrix of Transform::translate(t), Transform::scale(k) and
\* Transform::translate(t) * Transform::scale(k)
Placement(kind, t, k) == [kind |-> kind, t |-> t, k |-> k]

fwd_of(placement) ==
    IF placement.kind = "translate" THEN matrix_translate(placement.t)
    ELSE IF placement.kind = "scale" THEN matrix_scale(placement.k)
    ELSE matrix_mul(matrix_translate(placement.t), matrix_scale(placement.k))

\* AxisBox::for_shape of a shape whose box is finite
for_shape(shape) ==
    IF shape = "Sphere" THEN AxisBox(FVec(<<-1, -1, -1>>), FVec(<<1, 1, 1>>))
    ELSE AxisBox(FVec(<<0, 0, 0>>), FVec(<<1, 1, 0>>))

\* for_each_corner: the corners in the order they are visited
for_each_corner(box) ==
    << box.low, <<box.high[1], box.low[2], box.low[3]>>,
       <<box.low[1], box.high[2], box.low[3]>>, <<box.low[1], box.low[2], box.high[3]>>,
       <<box.high[1], box.high[2], box.low[3]>>, <<box.high[1], box.low[2], box.high[3]>>,
       <<box.low[1], box.high[2], box.high[3]>>, box.high >>

\* low = low.min(p_trans) and high = high.max(p_trans) over the corners
RECURSIVE corners_low(_, _, _)
corners_low(points, k, low) ==
    IF k > Len(points) THEN low
    ELSE corners_low(points, k + 1, <<FMin(low[1], points[k][1]), FMin(low[2], points[k][2]),
                                       FMin(low[3], points[k][3])>>)

RECURSIVE corners_high(_, _, _)
corners_high(points, k, high) ==
    IF k > Len(points) THEN high
    ELSE corners_high(points, k + 1, <<FMax(high[1], points[k][1]), FMax(high[2], points[k][2]),
                                        FMax(high[3], points[k][3])>>)

\* the assertion of AxisBox::new: delta.x >= 0.0 && delta.y >= 0.0 && delta.z >= 0.0
delta_accepted(low, high) ==
    \A i \in 1..3 : FLe(Fin(0), FSub(high[i], low[i]))

\* AxisBox::new: None where the assertion fails
axis_box_new(low, high) == IF delta_accepted(low, high) THEN Some(AxisBox(low, high)) ELSE None

\* Transform * AxisBox, given the transformed corners
box_of_corners(points) ==
    axis_box_new(corners_low(points, 1, <<PosInf, PosInf, PosInf>>),
                 corners_high(points, 1, <<NegInf, NegInf, NegInf>>))

\* AxisBox::for_object: None where AxisBox::new panics
placed_box(shape, fwd) ==
    box_of_corners([k \in 1..8 |-> transform_point(fwd, for_each_corner(for_shape(shape))[k])])

\* Point3::is_finite
point_is_finite(p) == IsFinite(p[1]) /\ IsFinite(p[2]) /\ IsFinite(p[3])

\* AxisBox::is_finite
box_is_finite(box) == point_is_finite(box.low) /\ point_is_finite(box.high)

\* BVH::new for a scene of one object: the object goes to global_ids, or to
\* ids with the root leaf build_leaf makes for it.  With one object, split
\* returns without a change and check recomputes the same bound.
Built(panic, global, tree, bound) ==
    [panic |-> panic, global |-> global, tree |-> tree, bound |-> bound]

root_leaf(bound) ==
    IF bound.some THEN Built(FALSE, <<>>, <<0>>, bound) ELSE Built(TRUE, <<>>, <<>>, None)

\* BVH::new on the one object: the partition is by the box of the shape
new_one(shape, fwd) ==
    IF shape_box_is_finite(shape) THEN root_leaf(placed_box(shape, fwd))
    ELSE Built(FALSE, <<0>>, <<>>, None)

\* the entries of the transforms: small, the largest finite f32, infinite, NaN
PlacementEntries == { Fin(0), Fin(1), Fin(FloatMax), PosInf, NaN }

Placements ==
    { Placement(kind, <<tx, Fin(0), tz>>, k) :
        kind \in {"translate", "scale", "translate_scale"},
        tx \in PlacementEntries, tz \in PlacementEntries,
        k \in {Fin(1), Fin(2), Fin(FloatMax)} }

InitPlaced ==
    /\ \E shape \in {"Sphere", "Plane", "Triangle", "Square", "Cylinder"},
          placement \in Placements :
        args = Some([shape |-> shape, placement |-> placement])
    /\ returned = None

\* BVH::new on the scene of the one object
PlacedNew ==
    /\ args.some
    /\ returned = None
    /\ returned' = Some(new_one(args.v.shape, fwd_of(args.v.placement)))
    /\ UNCHANGED args
    /\ UNCHANGED notCallVars

NextPlaced == PlacedNew

InitPlacedSpec ==
    InitPlaced /\ PixelIdle /\ SplitIdle /\ RenderIdle /\ BvhIdle /\ TraceIdle /\ ProgressIdle /\ PathIdle

\* BVH::new on one object with any transform
SpecPlaced == InitPlacedSpec /\ [][NextPlaced]_vars

\* ------------------------------------------------------------------------
\* Transform and Hit::transform in exact arithmetic (common/math.rs,
\* common/util.rs, cpu/geometry.rs)
\* ------------------------------------------------------------------------

\* Vec3 and Point3 of rationals
RatVec(v) == <<IntRat(v[1]), IntRat(v[2]), IntRat(v[3])>>

RVAdd(a, b) == <<RAdd(a[1], b[1]), RAdd(a[2], b[2]), RAdd(a[3], b[3])>>
RVSub(a, b) == <<RSub(a[1], b[1]), RSub(a[2], b[2]), RSub(a[3], b[3])>>
RVScale(a, k) == <<RMul(a[1], k), RMul(a[2], k), RMul(a[3], k)>>
RVDiv(a, k) == <<RDiv(a[1], k), RDiv(a[2], k), RDiv(a[3], k)>>

\* Vec3::dot, Vec3::cross
Vec3_dot(a, b) == RAdd(RAdd(RMul(a[1], b[1]), RMul(a[2], b[2])), RMul(a[3], b[3]))

Vec3_cross(a, b) ==
    << RSub(RMul(a[2], b[3]), RMul(a[3], b[2])),
       RSub(RMul(a[3], b[1]), RMul(a[1], b[3])),
       RSub(RMul(a[1], b[2]), RMul(a[2], b[1])) >>

\* f32::sqrt of this section is taken of squares of rationals only
IsSquare(n) == \E r \in 0..n : r * r = n
IRoot(n) == CHOOSE r \in 0..n : r * r = n
HasRoot(q) == q[1] >= 0 /\ IsSquare(q[1]) /\ IsSquare(q[2])
RSqrt(q) == <<IRoot(q[1]), IRoot(q[2])>>

\* Norm::norm and Norm::normalized of a vector that is not zero
Vec3_norm(v) == RSqrt(Vec3_dot(v, v))
HasNorm(v) == HasRoot(Vec3_dot(v, v)) /\ Vec3_dot(v, v) # IntRat(0)
normalized(v) == RVDiv(v, Vec3_norm(v))

\* Matrix4: four rows of four rationals
Matrix4_new(rows) == [r \in 1..4 |-> [c \in 1..4 |-> rows[r][c]]]

RSum4(a, b, c, d) == RAdd(RAdd(RAdd(a, b), c), d)

Matrix4_mul(a, b) ==
    [r \in 1..4 |-> [c \in 1..4 |->
        RSum4(RMul(a[r][1], b[1][c]), RMul(a[r][2], b[2][c]),
              RMul(a[r][3], b[3][c]), RMul(a[r][4], b[4][c]))]]

Matrix4_mul_array(m, v) ==
    [r \in 1..4 |->
        RSum4(RMul(m[r][1], v[1]), RMul(m[r][2], v[2]),
              RMul(m[r][3], v[3]), RMul(m[r][4], v[4]))]

Matrix4_transpose(m) == [r \in 1..4 |-> [c \in 1..4 |-> m[c][r]]]

R0 == IntRat(0)
R1 == IntRat(1)

Matrix4_translate(t) ==
    Matrix4_new(<< <<R1, R0, R0, t[1]>>, <<R0, R1, R0, t[2]>>,
                   <<R0, R0, R1, t[3]>>, <<R0, R0, R0, R1>> >>)

Matrix4_scale(s) ==
    Matrix4_new(<< <<s, R0, R0, R0>>, <<R0, s, R0, R0>>,
                   <<R0, R0, s, R0>>, <<R0, R0, R0, R1>> >>)

\* Transform: a matrix and its inverse
Transform(fwd, inv) == [fwd |-> fwd, inv |-> inv]

Transform_inv(t) == Transform(t.inv, t.fwd)

inv_transpose_mul(t, v) ==
    LET r == Matrix4_mul_array(Matrix4_transpose(t.inv), <<v[1], v[2], v[3], R0>>)
    IN  <<r[1], r[2], r[3]>>

Transform_translate(t) ==
    Transform(Matrix4_translate(t), Matrix4_translate(RVScale(t, IntRat(-1))))

\* scale # 0
Transform_scale(s) == Transform(Matrix4_scale(s), Matrix4_scale(RDiv(R1, s)))

\* the determinant of the matrix whose columns are tx, ty, tz
axes_determinant(tx, ty, tz) ==
    LET p(a, b, c) == RMul(RMul(a, b), c)
    IN  RSub(RAdd(RAdd(RSub(RSub(p(tx[1], ty[2], tz[3]), p(tx[1], tz[2], ty[3])),
                             p(ty[1], tx[2], tz[3])),
                        p(ty[1], tz[2], tx[3])),
                   p(tz[1], tx[2], ty[3])),
             p(tz[1], ty[2], tx[3]))

\* Transform::rotate_axes_to: d # 0
rotate_axes_to(tx, ty, tz) ==
    LET d == axes_determinant(tx, ty, tz)
        m(a, b, c, e) == RDiv(RSub(RMul(a, b), RMul(c, e)), d)
    IN  Transform(
            Matrix4_new(<< <<tx[1], ty[1], tz[1], R0>>, <<tx[2], ty[2], tz[2], R0>>,
                           <<tx[3], ty[3], tz[3], R0>>, <<R0, R0, R0, R1>> >>),
            Matrix4_new(<<
                <<m(ty[2], tz[3], tz[2], ty[3]), m(tz[1], ty[3], ty[1], tz[3]),
                  m(ty[1], tz[2], tz[1], ty[2]), R0>>,
                <<m(tz[2], tx[3], tx[2], tz[3]), m(tx[1], tz[3], tz[1], tx[3]),
                  m(tz[1], tx[2], tx[1], tz[2]), R0>>,
                <<m(tx[2], ty[3], ty[2], tx[3]), m(ty[1], tx[3], tx[1], ty[3]),
                  m(tx[1], ty[2], ty[1], tx[2]), R0>>,
                <<R0, R0, R0, R1>> >>))

\* impl Mul<Transform> for Transform
Transform_mul(a, b) == Transform(Matrix4_mul(a.fwd, b.fwd), Matrix4_mul(b.inv, a.inv))

\* impl Mul<Vec3> for Transform, impl Mul<Point3> for Transform
Transform_mul_vec(t, v) ==
    LET r == Matrix4_mul_array(t.fwd, <<v[1], v[2], v[3], R0>>) IN <<r[1], r[2], r[3]>>

Transform_mul_point(t, p) ==
    LET r == Matrix4_mul_array(t.fwd, <<p[1], p[2], p[3], R1>>) IN <<r[1], r[2], r[3]>>

\* util::triangle_as_transform
triangle_as_transform(a, b, c) ==
    LET target_normal == normalized(Vec3_cross(RVSub(b, a), RVSub(c, a)))
        shift_source == Transform_translate(RatVec(<<0, 0, 1>>))
        shift_target == Transform_translate(target_normal)
        axes_to_shifted_source ==
            rotate_axes_to(RatVec(<<0, 0, 1>>), RatVec(<<1, 0, 1>>), RatVec(<<0, 1, 1>>))
        axes_to_shifted_target ==
            rotate_axes_to(RVAdd(a, target_normal), RVAdd(b, target_normal),
                           RVAdd(c, target_normal))
    IN  Transform_mul(Transform_mul(Transform_mul(Transform_inv(shift_target),
                                                  axes_to_shifted_target),
                                    Transform_inv(axes_to_shifted_source)),
                      shift_source)

\* Ray::at
Ray_at(ray, t) == RVAdd(ray.start, RVScale(ray.direction, t))

\* impl Mul<&Ray> for Transform
Transform_mul_ray(t, ray) ==
    Ray(Transform_mul_point(t, ray.start), normalized(Transform_mul_vec(t, ray.direction)))

\* plane_intersect: a division by zero gives a t that is not finite
plane_hit(ray) ==
    IF ray.direction[3] = R0 THEN None
    ELSE LET t == RDiv(RMul(IntRat(-1), ray.start[3]), ray.direction[3])
         IN  IF RLt(t, R0) THEN None
             ELSE Some(Hit(t, Ray_at(ray, t), RatVec(<<0, 0, 1>>)))

\* (0.0..1.0).contains(x)
in_unit_range(x) == RLe(R0, x) /\ RLt(x, R1)

triangle_hit(ray) ==
    LET hit == plane_hit(ray)
    IN  IF /\ hit # None
           /\ in_unit_range(hit.v.point[1])
           /\ in_unit_range(hit.v.point[2])
           /\ RLt(RAdd(hit.v.point[1], hit.v.point[2]), R1)
        THEN hit ELSE None

square_hit(ray) ==
    LET hit == plane_hit(ray)
    IN  IF hit # None /\ in_unit_range(hit.v.point[1]) /\ in_unit_range(hit.v.point[2])
        THEN hit ELSE None

\* Hit::transform that keeps the object-space t
Hit_transform_unscaled(hit, transform, direction) ==
    Hit(hit.t, Transform_mul_point(transform, hit.point),
        normalized(inv_transpose_mul(transform, hit.normal)))

\* Hit::transform
Hit_transform(hit, transform, direction) ==
    Hit(RDiv(hit.t, Vec3_norm(Transform_mul_vec(Transform_inv(transform), direction))),
        Transform_mul_point(transform, hit.point),
        normalized(inv_transpose_mul(transform, hit.normal)))

\* check_hit: the debug assertion on t (the values of this section are never NaN)
hit_t_accepted(hit) == hit = None \/ RLe(R0, hit.v.t)

\* what one call leaves behind: the object-space hit and the returned hit
Transported(panic, obj_hit, world_hit) ==
    [panic |-> panic, obj_hit |-> obj_hit, world_hit |-> world_hit]

transport(obj_hit, transform, direction) ==
    IF obj_hit = None THEN None ELSE Some(Hit_transform(obj_hit.v, transform, direction))

transported_checked(obj_hit, world_hit) ==
    Transported(~hit_t_accepted(obj_hit) \/ ~hit_t_accepted(world_hit), obj_hit, world_hit)

\* intersect_transformed_shape on the shapes that need no square root
shape_hit(shape, obj_ray) ==
    CASE shape = "Plane" -> plane_hit(obj_ray)
      [] shape = "Triangle" -> triangle_hit(obj_ray)
      [] shape = "Square" -> square_hit(obj_ray)

transformed_hit(shape, transform, ray, obj_hit) ==
    transported_checked(obj_hit, transport(obj_hit, transform, ray.direction))

intersect_transformed_exact(shape, transform, ray) ==
    transformed_hit(shape, transform, ray,
                    shape_hit(shape, Transform_mul_ray(Transform_inv(transform), ray)))

\* the transforms: a translation, uniform scalings, a non-uniform scaling, a
\* shear, their products, and the transforms of triangles
ExactTriangles ==
    { <<RatVec(<<1, 0, 0>>), RatVec(<<1, 2, 0>>), RatVec(<<1, 0, 3>>)>>,
      <<RatVec(<<0, 0, 2>>), RatVec(<<3, 0, 2>>), RatVec(<<0, 1, 2>>)>>,
      <<RatVec(<<0, 0, 0>>), RatVec(<<1, 0, 0>>), RatVec(<<0, 3, 4>>)>>,
      <<RatVec(<<0, 0, 0>>), RatVec(<<1, 0, 0>>), RatVec(<<0, 1, 0>>)>> }

ExactTransforms ==
    { Transform_translate(RatVec(<<1, -2, 0>>)),
      Transform_scale(IntRat(2)),
      Transform_scale(Rat(1, 3)),
      rotate_axes_to(RatVec(<<2, 0, 0>>), RatVec(<<0, 1, 0>>), RatVec(<<0, 0, 3>>)),
      rotate_axes_to(RatVec(<<1, 0, 0>>), RatVec(<<1, 1, 0>>), RatVec(<<0, 0, 2>>)),
      Transform_mul(Transform_translate(RatVec(<<0, 1, 1>>)), Transform_scale(IntRat(2))),
      Transform_mul(Transform_translate(RatVec(<<0, 0, -1>>)),
                    rotate_axes_to(RatVec(<<3, 0, 0>>), RatVec(<<0, 0, 1>>),
                                   RatVec(<<0, -2, 0>>))) }
    \cup { triangle_as_transform(tri[1], tri[2], tri[3]) : tri \in ExactTriangles }

ExactStarts ==
    { RatVec(<<x, y, z>>) : x \in {0, 2}, y \in {0, 2}, z \in {-2, 2} }

ExactDirections ==
    { <<IntRat(0), IntRat(0), IntRat(1)>>, <<IntRat(0), IntRat(0), IntRat(-1)>>,
      <<IntRat(-1), IntRat(0), IntRat(0)>>, <<IntRat(0), IntRat(-1), IntRat(0)>>,
      <<IntRat(0), Rat(3, 5), Rat(-4, 5)>>, <<Rat(-3, 5), IntRat(0), Rat(4, 5)>>,
      <<Rat(-2, 3), Rat(-2, 3), Rat(-1, 3)>>, <<Rat(1, 3), Rat(-2, 3), Rat(2, 3)>> }

\* the square roots of the call are exact: the norm of the object-space
\* direction and the norm of the world-space normal
roots_are_exact(transform, direction) ==
    /\ HasNorm(Transform_mul_vec(Transform_inv(transform), direction))
    /\ HasNorm(inv_transpose_mul(transform, RatVec(<<0, 0, 1>>)))

InitExact ==
    /\ \E shape \in {"Plane", "Triangle", "Square"}, transform \in ExactTransforms,
          start \in ExactStarts, direction \in ExactDirections :
        /\ roots_are_exact(transform, direction)
        /\ args = Some([shape |-> shape, transform |-> transform,
                        ray |-> Ray(start, direction)])
    /\ returned = None

\* one call of intersect_transformed_shape
ExactCall ==
    /\ args.some
    /\ returned = None
    /\ returned' = Some(intersect_transformed_exact(args.v.shape, args.v.transform, args.v.ray))
    /\ UNCHANGED args
    /\ UNCHANGED notCallVars

NextExact == ExactCall

\* the parts of the state that a specification of one call does not use
NoCallIdle == PixelIdle /\ SplitIdle /\ RenderIdle /\ BvhIdle /\ TraceIdle /\ ProgressIdle /\ PathIdle

InitExactSpec == InitExact /\ NoCallIdle

\* intersect_transformed_shape on every transform, shape and ray of the sets
SpecExact == InitExactSpec /\ [][NextExact]_vars

\* ------------------------------------------------------------------------
\* trace_ray along one path: specular, medium and the material samples
\* (cpu/renderer.rs)
\* ------------------------------------------------------------------------

\* Medium
Medium(index_of_refraction, volumetric_color) ==
    [index_of_refraction |-> index_of_refraction, volumetric_color |-> volumetric_color]

Vacuum == Medium(IntRat(1), "white")
GlassMedium == Medium(Rat(3, 2), "white")

\* MaterialType
Fixed(camera_only) == [kind |-> "Fixed", camera_only |-> camera_only]
Diffuse == [kind |-> "Diffuse"]
Mirror == [kind |-> "Mirror"]
Transparent == [kind |-> "Transparent"]
DiffuseMirror(f) == [kind |-> "DiffuseMirror", f |-> f]

\* SampleInfo; of its direction the model keeps which side of the surface it
\* points to, which is crosses_surface
SampleInfo(weight, diffuse_fraction, specular, crosses_surface) ==
    [weight |-> weight, diffuse_fraction |-> diffuse_fraction, specular |-> specular,
     crosses_surface |-> crosses_surface]

\* the x of snells_law, for c = -normal.dot(vec) and the ratio r
snell_x(c, r) == RSub(R1, RMul(RMul(r, r), RSub(R1, RMul(c, c))))

\* snells_law: crosses_surface
snells_law(c, r) == RLt(R0, snell_x(c, r))

\* sample_direction for Diffuse and for Mirror
sample_diffuse == SampleInfo(Rat(1, 2), R1, FALSE, FALSE)

sample_mirror == SampleInfo(R1, R0, TRUE, FALSE)

\* sample_direction; c is the cosine of the angle of incidence and rng the
\* number drawn for DiffuseMirror
sample_direction(material_type, c, refract_ratio, rng) ==
    CASE material_type.kind = "Diffuse" -> sample_diffuse
      [] material_type.kind = "Mirror" -> sample_mirror
      [] material_type.kind = "Transparent" ->
            SampleInfo(R1, R0, TRUE, snells_law(c, refract_ratio))
      [] material_type.kind = "DiffuseMirror" ->
            [(IF RLt(rng, material_type.f) THEN sample_diffuse ELSE sample_mirror)
                EXCEPT !.diffuse_fraction = material_type.f]

\* the material of an object of the path model
PathMaterial(material_type, emits, inside, outside) ==
    [material_type |-> material_type, emits |-> emits, inside |-> inside,
     outside |-> outside]

\* A layered scene: parallel surfaces 1..n, one object each, with region k
\* between surface k and surface k + 1 (region 0 below surface 1, region n
\* above surface n).  normal_up: the normal of the surface points up.
Surface(material, normal_up) == [material |-> material, normal_up |-> normal_up]

\* the arguments of one trace_ray call; of the ray the model keeps the region
\* it starts in and whether it goes up
PathCall(region, up, is_camera_ray, bounces_left, specular, medium) ==
    [region |-> region, up |-> up, is_camera_ray |-> is_camera_ray,
     bounces_left |-> bounces_left, specular |-> specular, medium |-> medium]

\* filter_fixed_camera_only(is_camera_ray) on the object of a surface
surface_visible(layer, is_camera_ray) ==
    layer.material.material_type.kind = "Fixed" =>
        (is_camera_ray \/ ~layer.material.material_type.camera_only)

\* accel.first_hit: the nearest surface the filter accepts in the direction of
\* the ray, 0 if there is none
first_surface(layers, region, up, is_camera_ray) ==
    LET ahead == IF up THEN (region + 1)..Len(layers) ELSE 1..region
        seen == { k \in ahead : surface_visible(layers[k], is_camera_ray) }
    IN  IF seen = {} THEN 0
        ELSE IF up THEN CHOOSE k \in seen : \A l \in seen : k <= l
        ELSE CHOOSE k \in seen : \A l \in seen : k >= l

\* hit.normal.dot(ray.direction) < 0
into_surface(layer, up) == layer.normal_up # up

\* the medium the debug assertion compares with the current medium
asserted_medium(material, into) == IF into THEN material.outside ELSE material.inside

\* next_medium, "the next medium" of the hit: the other side of the surface
side_medium(material, into) == IF into THEN material.inside ELSE material.outside

\* the specular argument of the recursive call, always true
next_specular_always(sample) == TRUE

\* the specular argument of the recursive call
next_specular(sample) == sample.specular

\* the medium argument of the recursive call, always the other side
next_medium_always_crosses(sample, next_medium, medium) == next_medium

\* the medium argument of the recursive call
next_medium_of(sample, next_medium, medium) ==
    IF sample.crosses_surface THEN next_medium ELSE medium

\* result += emission happens at this hit
emission_added(strategy_, specular) == strategy_ = "Simple" \/ specular

\* sample_lights is called at this hit
lights_sampled(strategy_, sample) == strategy_ = "SampleLights" /\ sample.diffuse_fraction # R0

\* the regions on the two sides of surface k for a ray going up or down
region_before(k, up) == IF up THEN k - 1 ELSE k
region_beyond(k, up) == IF up THEN k ELSE k - 1

\* the media of the regions of a scene: all vacuum, or glass in the regions
\* of odd number, or glass in the regions of even number
RegionPatterns == {"vacuum", "slabs", "bubbles"}

region_medium(pattern, k) ==
    IF pattern = "vacuum" THEN Vacuum
    ELSE IF (pattern = "slabs") = (k % 2 = 1) THEN GlassMedium
    ELSE Vacuum

\* the objects of the layered scenes, <<material_type, emits, normal_up>>: a
\* diffuse light, a mirror, two glass surfaces, a DiffuseMirror, a Fixed
\* object only the camera sees and a Fixed object every ray sees
LayerKinds ==
    { <<Diffuse, TRUE, TRUE>>, <<Mirror, FALSE, TRUE>>, <<Transparent, FALSE, TRUE>>,
      <<Transparent, FALSE, FALSE>>, <<DiffuseMirror(Rat(1, 2)), FALSE, FALSE>>,
      <<Fixed(TRUE), FALSE, TRUE>>, <<Fixed(FALSE), FALSE, TRUE>> }

\* surface k of kind `kind`, its media those of the two regions it separates
layer_of(kind, k, pattern) ==
    Surface(PathMaterial(kind[1], kind[2],
                         region_medium(pattern, IF kind[3] THEN k - 1 ELSE k),
                         region_medium(pattern, IF kind[3] THEN k ELSE k - 1)),
            kind[3])

layers_of(kinds, pattern) == [k \in 1..Len(kinds) |-> layer_of(kinds[k], k, pattern)]

\* the layered scenes: up to three surfaces
LayerSequences ==
    {<<>>} \cup { <<a>> : a \in LayerKinds } \cup { <<a, b>> : a, b \in LayerKinds }
           \cup { <<a, b, c>> : a, b, c \in LayerKinds }

\* the cosines of the angle of incidence and the numbers the rng draws
Cosines == { R1, Rat(3, 5) }
Draws == { R0, Rat(3, 4) }

cosines_for(material_type) == IF material_type.kind = "Transparent" THEN Cosines ELSE { R1 }
draws_for(material_type) == IF material_type.kind = "DiffuseMirror" THEN Draws ELSE { R0 }

PathScene(layers, camera_region, camera_up, camera_medium, max_bounces_, strategy_, debug) ==
    [layers |-> layers, camera_region |-> camera_region, camera_up |-> camera_up,
     camera_medium |-> camera_medium, max_bounces |-> max_bounces_,
     strategy |-> strategy_, debug |-> debug]

\* every object has the medium of the region around it as its outside and
\* the medium of the region on the other side as its inside, and the camera
\* medium is the medium of the region of the camera
consistent_with(scene, assign) ==
    /\ scene.camera_medium = assign[scene.camera_region]
    /\ \A k \in 1..Len(scene.layers) :
        /\ scene.layers[k].material.outside =
               assign[IF scene.layers[k].normal_up THEN k ELSE k - 1]
        /\ scene.layers[k].material.inside =
               assign[IF scene.layers[k].normal_up THEN k - 1 ELSE k]

Consistent(scene) ==
    \E assign \in [0..Len(scene.layers) -> {Vacuum, GlassMedium}] :
        consistent_with(scene, assign)

InitPath ==
    /\ \E kinds \in LayerSequences, pattern \in RegionPatterns,
          camera_region \in 0..1, camera_up \in BOOLEAN,
          camera_medium \in {Vacuum, GlassMedium}, bounces \in 0..MaxBounces,
          strategy_ \in {"Simple", "SampleLights"}, debug \in BOOLEAN :
        /\ camera_region <= Len(kinds)
        /\ path_scene = Some(PathScene(layers_of(kinds, pattern), camera_region, camera_up,
                                       camera_medium, bounces, strategy_, debug))
    /\ path_call = None
    /\ path_log = <<>>
    /\ path_pc = "ready"

\* calculate_pixel calls trace_ray: is_camera_ray and specular are true
PathPrimary ==
    /\ path_pc = "ready"
    /\ path_call' = Some(PathCall(path_scene.v.camera_region, path_scene.v.camera_up, TRUE,
                                  path_scene.v.max_bounces, TRUE,
                                  path_scene.v.camera_medium))
    /\ path_pc' = "running"
    /\ UNCHANGED <<path_scene, path_log>>
    /\ UNCHANGED notPathVars

\* the surface the call in progress hits, 0 for none
hit_surface ==
    first_surface(path_scene.v.layers, path_call.v.region, path_call.v.up,
                  path_call.v.is_camera_ray)

\* the call returns black; with it every call of the path returns
PathBlack ==
    /\ path_pc = "running"
    /\ path_call.v.bounces_left = 0
    /\ path_pc' = "returned"
    /\ UNCHANGED <<path_scene, path_call, path_log>>
    /\ UNCHANGED notPathVars

\* the ray hits nothing: the sky
PathSky ==
    /\ path_pc = "running"
    /\ path_call.v.bounces_left # 0
    /\ hit_surface = 0
    /\ path_pc' = "returned"
    /\ UNCHANGED <<path_scene, path_call, path_log>>
    /\ UNCHANGED notPathVars

\* the ray hits a Fixed material: return object.material.albedo
PathFixed ==
    /\ path_pc = "running"
    /\ path_call.v.bounces_left # 0
    /\ hit_surface # 0
    /\ path_scene.v.layers[hit_surface].material.material_type.kind = "Fixed"
    /\ path_pc' = "returned"
    /\ UNCHANGED <<path_scene, path_call, path_log>>
    /\ UNCHANGED notPathVars

\* what the call did at the hit of surface k
HitEntry(k, material, call, into, next_medium, c, sample, passed_specular, passed_medium) ==
    [surface |-> k, material |-> material, into |-> into, medium |-> call.medium,
     specular |-> call.specular, next_medium |-> next_medium, c |-> c, sample |-> sample,
     emission_added |-> emission_added(path_scene.v.strategy, call.specular),
     lights_sampled |-> lights_sampled(path_scene.v.strategy, sample),
     passed_specular |-> passed_specular, passed_medium |-> passed_medium]

\* the recursive call: the next ray starts on the side of the surface that
\* sample.direction points to
next_call(k, call, sample, passed_specular, passed_medium) ==
    PathCall(IF sample.crosses_surface THEN region_beyond(k, call.up)
             ELSE region_before(k, call.up),
             IF sample.crosses_surface THEN call.up ELSE ~call.up,
             FALSE, call.bounces_left - 1, passed_specular, passed_medium)

\* from sample_direction to the recursive call
PathRecurse(k, material, call, into, next_medium, c, sample) ==
    /\ path_log' = Append(path_log,
            HitEntry(k, material, call, into, next_medium, c, sample, next_specular(sample),
                     next_medium_of(sample, next_medium, call.medium)))
    /\ path_call' = Some(next_call(k, call, sample, next_specular(sample),
                                   next_medium_of(sample, next_medium, call.medium)))
    /\ path_pc' = "running"

\* the debug assertion on the medium, then the sample of the next ray
PathMedium(k, material, call, into, next_medium) ==
    IF path_scene.v.debug /\ call.medium # asserted_medium(material, into)
    THEN path_pc' = "panic" /\ UNCHANGED <<path_call, path_log>>
    ELSE \E c \in cosines_for(material.material_type), rng \in draws_for(material.material_type) :
            PathRecurse(k, material, call, into, next_medium, c,
                        sample_direction(material.material_type, c,
                                         RDiv(call.medium.index_of_refraction,
                                              next_medium.index_of_refraction), rng))

PathSurface(k, layer, call) ==
    PathMedium(k, layer.material, call, into_surface(layer, call.up),
               side_medium(layer.material, into_surface(layer, call.up)))

\* the ray hits a material that is not Fixed: trace_ray up to its recursive call
PathHit ==
    /\ path_pc = "running"
    /\ path_call.v.bounces_left # 0
    /\ hit_surface # 0
    /\ path_scene.v.layers[hit_surface].material.material_type.kind # "Fixed"
    /\ PathSurface(hit_surface, path_scene.v.layers[hit_surface], path_call.v)
    /\ UNCHANGED path_scene
    /\ UNCHANGED notPathVars

NextPath ==
    \/ PathPrimary
    \/ PathBlack
    \/ PathSky
    \/ PathFixed
    \/ PathHit

InitPathSpec ==
    InitPath /\ PixelIdle /\ SplitIdle /\ RenderIdle /\ BvhIdle /\ TraceIdle /\ ProgressIdle /\ CallIdle

\* the trace_ray calls of one path, on every layered scene
SpecPath == InitPathSpec /\ [][NextPath]_vars

\* ------------------------------------------------------------------------
\* BVH traversal over scenes of larger objects
\* ------------------------------------------------------------------------

\* the objects of the traversed scenes: squares of size 2, whose boxes the
\* rays through y = 1 and x = 1 enter from outside, two of them facing z, one
\* facing x and one camera-only, and two planes (they go to global_ids), one
\* of them camera-only
TraversalPool ==
    { Object("Square", <<0, 0, 0>>, 2, "Z", FALSE),
      Object("Square", <<0, 0, 1>>, 2, "Z", FALSE),
      Object("Square", <<2, 0, 0>>, 2, "X", FALSE),
      Object("Square", <<0, 0, 0>>, 2, "Z", TRUE),
      Object("Plane", <<0, 0, 2>>, 1, "Z", FALSE),
      Object("Plane", <<0, 0, 1>>, 1, "Z", TRUE) }

\* the traversed scenes: three objects
TraversalScenes == { <<a, b, c>> : a, b, c \in TraversalPool }

InitTraversal ==
    /\ objects \in TraversalScenes
    /\ strategy \in Strategies
    /\ bvh_pc = "new"
    /\ ids = <<>>
    /\ global_ids = <<>>
    /\ nodes = <<>>
    /\ todo = <<>>
    /\ query = None
    /\ bvh_hit = None

InitTraversalSpec == InitTraversal /\ PixelIdle /\ SplitIdle /\ RenderIdle /\ OthersIdle

\* BVH::new on a scene of three objects, then one first_hit
SpecTraversal == InitTraversalSpec /\ [][NextBvh]_vars

\* ------------------------------------------------------------------------
\* The size of the collector's target buffer (cpu/driver.rs)
\* ------------------------------------------------------------------------

\* low + high * 256 as a Wide, for low and high below 2^24
WideOfBytes(low, high) ==
    Wide((low \div 65536) + (high \div 256)
            + (((low % 65536) + ((high % 256) * 256)) \div 65536),
         ((low % 65536) + ((high % 256) * 256)) % 65536)

\* the product of two numbers below 2^16, as a Wide
Mul16(x, y) == WideOfBytes((x % 256) * y, (x \div 256) * y)

\* a number below 2^64 from the digits of its base 2^16 columns, each column
\* a sum of digits: <<the high 32 bits, the low 32 bits>>
Carried(c3, c2, c1, c0) ==
    <<Wide(c3 + ((c2 + (c1 \div 65536)) \div 65536), (c2 + (c1 \div 65536)) % 65536),
      Wide(c1 % 65536, c0)>>

\* the product of two u32 in full
Product64From(ll, lh, hl, hh) ==
    Carried(hh[1], lh[1] + hl[1] + hh[2], ll[1] + lh[2] + hl[2], ll[2])

Product64(a, b) ==
    Product64From(Mul16(a[2], b[2]), Mul16(a[2], b[1]), Mul16(a[1], b[2]), Mul16(a[1], b[1]))

\* width * height in u32: with overflow checks (a debug build) an overflow
\* panics, without them (a release build) the product wraps; then `as usize`
mul_u32(a, b, debug) ==
    IF Product64(a, b)[1] # Wide(0, 0) /\ debug
    THEN [panic |-> TRUE, len |-> <<Wide(0, 0), Wide(0, 0)>>]
    ELSE [panic |-> FALSE, len |-> <<Wide(0, 0), Product64(a, b)[2]>>]

\* vec![PixelResult::default(); (width * height) as usize]: the length of
\* target_buf
target_buf_len(image_width, image_height, debug) == mul_u32(image_width, image_height, debug)

\* the image sizes: small ones and the ones around 2^16 and 2^32
ImageSides ==
    { Wide(0, 0), Wide(0, 1), Wide(0, 16), Wide(0, 33), Wide(0, 65535), Wide(1, 0),
      Wide(1, 1), Wide(2, 0), Wide(32768, 0), Wide(65535, 65535) }

InitTarget ==
    /\ \E w \in ImageSides, h \in ImageSides, debug \in BOOLEAN :
        args = Some([width |-> w, height |-> h, debug |-> debug])
    /\ returned = None

\* the first statement of the collector thread
TargetCall ==
    /\ args.some
    /\ returned = None
    /\ returned' = Some(target_buf_len(args.v.width, args.v.height, args.v.debug))
    /\ UNCHANGED args
    /\ UNCHANGED notCallVars

NextTarget == TargetCall

InitTargetSpec ==
    InitTarget /\ PixelIdle /\ SplitIdle /\ RenderIdle /\ BvhIdle /\ TraceIdle /\ ProgressIdle /\ PathIdle

\* the allocation of the target buffer for every image size
SpecTarget == InitTargetSpec /\ [][NextTarget]_vars

\* ------------------------------------------------------------------------
\* Properties of the tile scheduler and the collector
\* ------------------------------------------------------------------------

\* what calculate_pixel has returned for pixel p, over all rendered blocks
Produced(p) ==
    { calculate_pixel(rendered_by[i], p[1], p[2]) :
        i \in { j \in 1..Len(blocks) : InBlock(blocks[j], p) /\ rendered_by[j] # 0 } }

\* how often the collector has written pixel p
Writes(p) == Cardinality({ k \in 1..Len(received) : InBlock(received[k], p) })

\* C1: at any moment no pixel has been written twice, an unwritten pixel holds
\* the default and a written pixel holds the value calculate_pixel produced
\* for it; when render returns, every pixel of the image has been written
\* exactly once and holds the value produced for it.
C1_EveryPixelItsOwnResult ==
    /\ coll_pc \in {"recv", "update", "returned"} =>
        /\ DOMAIN target = Pixels(width, height)
        /\ \A p \in Pixels(width, height) :
            /\ Writes(p) <= 1
            /\ (Writes(p) = 0 => target[p] = PixelDefault)
            /\ (Writes(p) = 1 => Produced(p) = {target[p]})
    /\ main_pc = "returned" =>
        /\ result.some
        /\ DOMAIN result.v = Pixels(width, height)
        /\ \A p \in Pixels(width, height) :
            /\ Writes(p) = 1
            /\ result.v[p] # PixelDefault
            /\ Produced(p) = {result.v[p]}

C1_Witness ==
    /\ main_pc = "returned"
    /\ width = MaxWidth
    /\ blocks # split_into_blocks(width, height)
    /\ received # blocks
    /\ \E p, q \in Pixels(width, height) : result.v[p].rng # result.v[q].rng
    /\ \A p \in Pixels(width, height) : Produced(p) = {result.v[p]}

\* C4: render terminates, and whenever the collector has returned the sender
\* was dropped, the channel is empty and the collector has processed as many
\* messages as split_into_blocks produced tiles.
C4_RenderTerminatesWithAllTiles ==
    /\ <>(main_pc = "returned")
    /\ [](coll_pc = "returned" =>
            /\ ~sender_alive
            /\ channel = <<>>
            /\ Len(received) = Len(split_into_blocks(width, height)))

C4_Witness ==
    /\ main_pc = "returned"
    /\ coll_pc = "returned"
    /\ Len(split_into_blocks(width, height)) >= 3
    /\ Len(received) = Len(split_into_blocks(width, height))

\* C5: the tiles of split_into_blocks(W, H) have sides in 1..16, lie inside the
\* image, every pixel of the image is in exactly one tile, a tile narrower
\* (lower) than 16 touches the right (bottom) edge, and the list is empty for
\* W = 0 or H = 0.
C5_BlocksPartitionImage ==
    split_result.some =>
        LET bs == split_result.v
            W == split_width
            H == split_height
        IN  /\ \A k \in 1..Len(bs) :
                /\ bs[k].width \in 1..BlockSize
                /\ bs[k].height \in 1..BlockSize
                /\ bs[k].x >= 0 /\ bs[k].x + bs[k].width <= W
                /\ bs[k].y >= 0 /\ bs[k].y + bs[k].height <= H
                /\ (bs[k].width < BlockSize => bs[k].x + bs[k].width = W)
                /\ (bs[k].height < BlockSize => bs[k].y + bs[k].height = H)
            /\ \A k, l \in 1..Len(bs) :
                k # l => \/ bs[k].x + bs[k].width <= bs[l].x
                         \/ bs[l].x + bs[l].width <= bs[k].x
                         \/ bs[k].y + bs[k].height <= bs[l].y
                         \/ bs[l].y + bs[l].height <= bs[k].y
            /\ \A p \in Pixels(W, H) :
                Cardinality({ k \in 1..Len(bs) : InBlock(bs[k], p) }) = 1
            /\ (W = 0 \/ H = 0 => bs = <<>>)

C5_Witness ==
    /\ split_result.some
    /\ split_width = 2 * BlockSize + 1
    /\ split_height = BlockSize + 1
    /\ Len(split_result.v) = 6
    /\ split_result.v[6] = Block(2 * BlockSize, BlockSize, 1, 1)

\* ------------------------------------------------------------------------
\* Properties of calculate_pixel and the estimator
\* ------------------------------------------------------------------------

RECURSIVE SumColors(_)
SumColors(xs) ==
    IF xs = <<>> THEN Black ELSE ColorAdd(xs[1], SumColors(Tail(xs)))

\* the two-pass mean and population variance of a sequence of colors
OfflineMean(xs) == ColorDivScalar(SumColors(xs), Len(xs))

OfflineVariance(xs) ==
    LET m == OfflineMean(xs)
        sq == [i \in 1..Len(xs) |-> ColorMul(ColorSub(xs[i], m), ColorSub(xs[i], m))]
    IN  ColorDivScalar(SumColors(sq), Len(xs))

\* C8: with SampleCount(N) the count equals the number of traced samples, never
\* exceeds N, and the returned PixelResult has samples = N after exactly N
\* traced samples (none for N = 0); below N the loop is never done.
C8_SampleCountExact ==
    stop_condition.kind = "SampleCount" =>
        /\ estimator.count = Len(traced)
        /\ Len(traced) <= stop_condition.samples
        /\ (Len(traced) < stop_condition.samples =>
                pixel_pc = "loop" /\ is_done(stop_condition, estimator) = "false")
        /\ (pixel_pc = "done" =>
                /\ Len(traced) = stop_condition.samples
                /\ pixel_result = Some(PixelResultOf(estimator))
                /\ pixel_result.v.samples = stop_condition.samples)

C8_Witness ==
    /\ stop_condition = SampleCount(MaxSamples)
    /\ pixel_pc = "done"
    /\ Len(traced) = MaxSamples
    /\ pixel_result.v.samples = MaxSamples

\* C9: with Variance { min_samples, .. } the expect on variance() never fires
\* (the variance is only requested with count >= 2) and the loop never ends
\* before count >= max(min_samples, 2).
C9_VarianceNeverTooEarly ==
    stop_condition.kind = "Variance" =>
        /\ is_done(stop_condition, estimator) # "panic"
        /\ (estimator.count < Max(stop_condition.min_samples, 2) =>
                pixel_pc = "loop" /\ is_done(stop_condition, estimator) = "false")
        /\ (pixel_pc = "done" =>
                /\ estimator.count >= Max(stop_condition.min_samples, 2)
                /\ variance(estimator).some)

C9_Witness ==
    /\ stop_condition.kind = "Variance"
    /\ stop_condition.min_samples = 0
    /\ pixel_pc = "done"
    /\ estimator.count = 2

\* C10: after every prefix of updates the count is the number of samples, the
\* mean is their arithmetic mean and, from two samples on, variance() is their
\* population variance (divisor n); a constant sequence has mean c, variance 0.
C10_WelfordAgreesOffline ==
    LET n == Len(traced)
    IN  /\ estimator.count = n
        /\ (n >= 1 => estimator.mean = OfflineMean(traced))
        /\ (n < 2 => variance(estimator) = None)
        /\ (n >= 2 => variance(estimator) = Some(OfflineVariance(traced)))
        /\ (n >= 2 /\ (\A i \in 1..n : traced[i] = traced[1]) =>
                /\ estimator.mean = traced[1]
                /\ variance(estimator) = Some(Black))

C10_Witness ==
    /\ Len(traced) = 3
    /\ traced[1] # traced[2]
    /\ traced[2] # traced[3]
    /\ estimator.mean["red"][2] = 3
    /\ variance(estimator) = Some(OfflineVariance(traced))
    /\ variance(estimator).v["red"] # IntRat(0)

\* ------------------------------------------------------------------------
\* Properties of the BVH
\* ------------------------------------------------------------------------

\* the ids covered by the leaves of the tree, in tree order
TreeIds == IF nodes = <<>> THEN <<>> ELSE check_node_ids(ids, nodes, 0)

\* how often id occurs in the Vec
Occurrences(vec, id) == Cardinality({ k \in 1..Len(vec) : vec[k] = id })

\* C6: once BVH::new has partitioned the ids, and after every in-place
\* partition of the build, every object index 0..n-1 occurs exactly once in
\* global_ids and the ids of the tree leaves together, and Builder::check
\* does not panic.
C6_EveryIndexExactlyOnce ==
    /\ bvh_pc # "panic"
    /\ bvh_pc \in {"split", "built"} =>
        /\ Len(TreeIds) + Len(global_ids) = Len(objects)
        /\ \A id \in 0..(Len(objects) - 1) :
            Occurrences(TreeIds, id) + Occurrences(global_ids, id) = 1

\* C6 witness: a built BVH with a global object and a branch, whose ids the
\* partitions have permuted
C6_Witness ==
    /\ bvh_pc = "built"
    /\ global_ids # <<>>
    /\ Len(nodes) >= 3
    /\ \E k \in 1..(Len(ids) - 1) : ids[k] > ids[k + 1]

\* the union of the object boxes of a non-empty set of object indices
UnionOfBoxes(S) ==
    AxisBox(SetMin({ for_object(At(objects, id)).low : id \in S }),
            SetMax({ for_object(At(objects, id)).high : id \in S }))

\* the object indices in the leaves below a node
IdsBelow(node_index) ==
    LET below == check_node_ids(ids, nodes, node_index)
    IN  { below[k] : k \in 1..Len(below) }

\* C7: the bound stored in every node, leaf or branch, is the union of the
\* boxes of the objects in the leaves below it, and the bound of a branch is
\* the union of the bounds of its two children.
C7_NodeBoundsAreUnions ==
    bvh_pc \in {"split", "built", "panic"} =>
        \A n \in 0..(Len(nodes) - 1) :
            /\ At(nodes, n).bound = UnionOfBoxes(IdsBelow(n))
            /\ At(nodes, n).kind = "Branch" =>
                At(nodes, n).bound = combine(At(nodes, At(nodes, n).left_index).bound,
                                             At(nodes, At(nodes, n).left_index + 1).bound)

\* C7 witness: a built tree of two levels whose root range was permuted
C7_Witness ==
    /\ bvh_pc = "built"
    /\ Len(nodes) >= 5
    /\ At(nodes, 0).kind = "Branch"
    /\ \E k \in 1..(Len(ids) - 1) : ids[k] > ids[k + 1]

\* the linear scan for the query
LinearScan == NoAccel_first_hit(objects, query.v.ray, query.v.is_camera_ray)

\* C2: BVH::first_hit returns None exactly when the linear scan finds no
\* filter-accepted object on the ray, and otherwise a hit with the t of the
\* linear scan, the minimum over all filter-accepted objects that are hit.
C2_SameTAsLinearScan ==
    query.some =>
        /\ bvh_hit.some <=> LinearScan.some
        /\ bvh_hit.some /\ LinearScan.some => bvh_hit.v.hit.t = LinearScan.v.hit.t

\* C3: BVH::first_hit returns the (id, t) pair of the linear scan over
\* scene.objects, the lowest index among the objects tied at the nearest t.
C3_SamePairAsLinearScan ==
    query.some =>
        IF LinearScan.some
        THEN /\ bvh_hit.some
             /\ bvh_hit.v.id = LinearScan.v.id
             /\ bvh_hit.v.hit.t = LinearScan.v.hit.t
        ELSE ~bvh_hit.some

\* ------------------------------------------------------------------------
\* Properties of trace_ray
\* ------------------------------------------------------------------------

\* the answer of a query is a camera-only object
AnswersCameraOnly(q) == q.hit.some /\ At(objects, q.hit.v).camera_only

\* C11: a camera-only object is never the hit of a non-camera ray.  Only the
\* outermost trace_ray call (the primary ray of calculate_pixel) has
\* is_camera_ray = true; every recursive call and every shadow ray queries
\* with is_camera_ray = false, and the answer of such a query, from the
\* global list or from a tree leaf, is never a camera-only object; so the
\* debug assertion of trace_ray does not fail and what a shadow ray reports
\* as the occluder of a light is never a camera-only object.
C11_CameraOnlyHiddenFromOtherRays ==
    /\ \A k \in 1..Len(stack) : stack[k].is_camera_ray <=> k = 1
    /\ last_query.some /\ last_query.v.kind = "shadow" => ~last_query.v.is_camera_ray
    /\ last_query.some /\ ~last_query.v.is_camera_ray => ~AnswersCameraOnly(last_query.v)
    /\ trace_pc # "panic"

\* a recursive ray went through a camera-only object, which it would have met
\* first, and hit the object behind it
C11_Witness ==
    /\ last_query.some
    /\ last_query.v.kind = "trace"
    /\ ~last_query.v.is_camera_ray
    /\ last_query.v.hidden
    /\ last_query.v.hit.some

\* C12: trace_ray terminates within max_bounces nested calls.  The call k
\* levels below the primary call has bounces_left = max_bounces - k; so the
\* calls in progress never exceed the primary call and max_bounces nested
\* ones, one recursive call per call makes at most max_bounces + 1 calls in
\* all, and the call with bounces_left = 0 does not query the accelerator:
\* at most max_bounces queries are made by trace_ray itself.
C12_AtMostMaxBouncesNestedCalls ==
    /\ \A k \in 1..Len(stack) : stack[k].bounces_left = max_bounces - (k - 1)
    /\ Len(stack) <= max_bounces + 1
    /\ trace_calls <= max_bounces + 1
    /\ accel_queries <= max_bounces
    /\ trace_pc = "returned" => stack = <<>>

\* the primary ray of a render with the largest max_bounces bounced every
\* time, the last call returned black, and calculate_pixel has its color
C12_Witness ==
    /\ max_bounces = MaxBounces
    /\ trace_calls = MaxBounces + 1
    /\ accel_queries = MaxBounces
    /\ trace_pc = "returned"

\* ------------------------------------------------------------------------
\* Properties of the progress handlers
\* ------------------------------------------------------------------------

\* the tiles of the image, in the order the collector receives them
AllTiles == split_into_blocks(progress_size[1], progress_size[2])

\* a failed send drops the client, is the last call of client.send, and
\* leaves the collector and PrintProgress as they would be without it
TevFailureContained ==
    /\ tev_failed => ~tev_client
    /\ tev_attempts = Len(tev_sent) + (IF tev_failed THEN 1 ELSE 0)
    /\ progress_pc # "panic"
    /\ print_updates \o tiles_left = AllTiles
    /\ progress_pc = "returned" => print_updates = AllTiles

\* C13: a failed send to the tev viewer disables TevProgress and nothing
\* else.  After the first failure the client is None and client.send is not
\* called again; init and update return, so PrintProgress, the other handler
\* of the CombinedProgress, is updated with every tile and the collector
\* returns.
C13_TevFailureNeverFailsTheRender == []TevFailureContained /\ <>(progress_pc = "returned")

\* the send of the first update failed in a render of several tiles, and the
\* collector has returned after PrintProgress saw all of them
C13_Witness ==
    /\ tev_failed
    /\ Len(tev_sent) = 2
    /\ Len(AllTiles) > 2
    /\ progress_pc = "returned"

\* ------------------------------------------------------------------------
\* Properties of Object::intersect
\* ------------------------------------------------------------------------

\* C14: every Hit of Object::intersect, the object-space one and the
\* world-space one, has t >= 0 and a point and a normal without NaN: the
\* checks of check_hit hold for it.
C14_EveryHitPassesCheckHit ==
    returned.some => check_hit(returned.v.obj_hit) /\ check_hit(returned.v.world_hit)

\* C20: Object::intersect never panics: for every shape and ray it returns a
\* Hit or None.
C20_IntersectNeverPanics == returned.some => ~returned.v.panic

\* ------------------------------------------------------------------------
\* Properties of AxisBox::intersects
\* ------------------------------------------------------------------------

\* the interval of t at which the ray is between the two faces of one axis:
\* between the two crossings, or, for a ray parallel to the faces, every t
\* if it starts between them (the faces included) and no t if it does not
SlabInterval(box, ray, axis) ==
    IF Get(ray.direction, axis) # 0
    THEN <<FMin(FDiv(Get(box.low, axis) - Get(ray.start, axis), Get(ray.direction, axis)),
                FDiv(Get(box.high, axis) - Get(ray.start, axis), Get(ray.direction, axis))),
           FMax(FDiv(Get(box.low, axis) - Get(ray.start, axis), Get(ray.direction, axis)),
                FDiv(Get(box.high, axis) - Get(ray.start, axis), Get(ray.direction, axis)))>>
    ELSE IF Get(box.low, axis) <= Get(ray.start, axis)
            /\ Get(ray.start, axis) <= Get(box.high, axis)
    THEN <<NegInf, PosInf>>
    ELSE <<PosInf, NegInf>>

\* the entry t and the exit t of the three slab intervals
EntryT(box, ray) ==
    FMax(SlabInterval(box, ray, "X")[1],
         FMax(SlabInterval(box, ray, "Y")[1], SlabInterval(box, ray, "Z")[1]))

ExitT(box, ray) ==
    FMin(SlabInterval(box, ray, "X")[2],
         FMin(SlabInterval(box, ray, "Y")[2], SlabInterval(box, ray, "Z")[2]))

\* Some(entry t) if exit t >= entry t and exit t > 0, else None
SlabRule(box, ray) ==
    IF FLe(EntryT(box, ray), ExitT(box, ray)) /\ FLt(Fin(0), ExitT(box, ray))
    THEN Some(EntryT(box, ray)) ELSE None

\* C15: AxisBox::intersects returns Some(entry t) exactly when the three
\* slab intervals overlap with exit t >= entry t and exit t > 0, rays with
\* zero direction components included; the cube [-1, 1]^3 met by the ray
\* from (0, 0, -4) along +z gives Some(3).
C15_IntersectsIsTheSlabRule ==
    returned.some =>
        /\ returned.v = SlabRule(args.v.box, args.v.ray)
        /\ args.v = [box |-> AxisBox(<<-1, -1, -1>>, <<1, 1, 1>>),
                     ray |-> Ray(<<0, 0, -4>>, <<0, 0, 1>>)] => returned.v = Some(Fin(3))

\* ------------------------------------------------------------------------
\* Properties of fast_powf
\* ------------------------------------------------------------------------

\* what the safe power is said to be for a base >= 0: the base for a base of
\* 0 or 1 or an exponent of 1, the limit for an infinite exponent, the
\* standard power otherwise
SafePow(base, exp) ==
    IF base \in {Fin(IntRat(0)), Fin(IntRat(1))} \/ exp = Fin(IntRat(1)) THEN base
    ELSE IF exp = PosInf THEN (IF AboveRat(base, IntRat(1)) THEN PosInf ELSE Fin(IntRat(0)))
    ELSE IF exp = NegInf THEN (IF AboveRat(base, IntRat(1)) THEN Fin(IntRat(0)) ELSE PosInf)
    ELSE powf(base, exp)

\* pow(0,0) = 0, pow(1,inf) = 1, pow(0.5,inf) = 0, pow(2,inf) = inf,
\* pow(2,-inf) = 0
SafePowExamples ==
    { <<Fin(IntRat(0)), Fin(IntRat(0)), Fin(IntRat(0))>>,
      <<Fin(IntRat(1)), PosInf, Fin(IntRat(1))>>,
      <<Fin(Rat(1, 2)), PosInf, Fin(IntRat(0))>>,
      <<Fin(IntRat(2)), PosInf, PosInf>>,
      <<Fin(IntRat(2)), NegInf, Fin(IntRat(0))>> }

\* C16: for every base >= 0 and every exponent, infinite ones included,
\* fast_powf returns the safe power, which is never NaN, and the five listed
\* values among them pow(0,0) = 0.
C16_FastPowfIsTheSafePower ==
    returned.some =>
        /\ ~returned.v.panic
        /\ returned.v.value = SafePow(args.v.base, args.v.exp)
        /\ ~IsNaN(returned.v.value)
        /\ \A e \in SafePowExamples :
            args.v.base = e[1] /\ args.v.exp = e[2] => returned.v.value = e[3]

\* ------------------------------------------------------------------------
\* Properties of the size assertion of BVH::new
\* ------------------------------------------------------------------------

\* C17: BVH::new fails its size assertion exactly when the object count
\* exceeds 2^32 - 1; a count it accepts is kept by `as u32` and the largest
\* index, count - 1, is a u32.
C17_AssertionFailsAbove2Pow32Minus1 ==
    returned.some =>
        /\ returned.v.panic <=> WideLt(u32_MAX, args.v.len)
        /\ ~returned.v.panic => returned.v.total_len = args.v.len
        /\ returned.v.last.some => ~WideLt(u32_MAX, returned.v.last.v)

\* ------------------------------------------------------------------------
\* Properties of BVH::new on objects with any transform
\* ------------------------------------------------------------------------

\* the corners of the object's box, transformed
PlacedCorners == { transform_point(fwd_of(args.v.placement), for_each_corner(for_shape(args.v.shape))[k]) : k \in 1..8 }

\* the transformed AABB of the object is finite: its shape is bounded and
\* every transformed corner is a finite point
PlacedBoxIsFinite ==
    shape_box_is_finite(args.v.shape) /\ \A p \in PlacedCorners : point_is_finite(p)

\* C18: BVH::new completes for an object with any transform; an object
\* whose transformed AABB is not finite is in global_ids, and an object in
\* the tree has a finite bound.
C18_NonFiniteBoxGoesToGlobalIds ==
    returned.some =>
        /\ ~returned.v.panic
        /\ ~PlacedBoxIsFinite => returned.v.global = <<0>>
        /\ returned.v.tree # <<>> => box_is_finite(returned.v.bound.v)

\* ---------------------------------------------------------------------------
\* Properties of the channel between the tile workers and the collector
\* ---------------------------------------------------------------------------

\* C19 (as stated): the channel is bounded and a full channel blocks the
\* senders, so while the collector has received nothing the workers cannot
\* queue every tile of an image that has more tiles than there are workers.
C19_StalledCollectorStopsWorkers ==
    (Len(blocks) > NumWorkers /\ received = <<>>) => Len(channel) < Len(blocks)

\* C19 (amended): the channel is unbounded.  A worker that holds a rendered
\* tile can always send it, whatever the collector does, and the results sent
\* but not yet received are limited only by the number of tiles of the image.
C19_SendNeverBlocks ==
    /\ \A w \in 1..NumWorkers : workers[w] # None => ENABLED WorkerSend(w)
    /\ Len(channel) + Len(received) <= Len(blocks)

\* every tile of a six-tile image is queued and the collector has received none
C19_Witness ==
    /\ Len(blocks) > NumWorkers
    /\ received = <<>>
    /\ Len(channel) = Len(blocks)

\* ---------------------------------------------------------------------------
\* Properties of Hit::transform
\* ---------------------------------------------------------------------------

\* the transform of the triangle (1,0,0), (1,2,0), (1,0,3): its sides are
\* scaled by 2 and by 3
StretchedTriangle ==
    triangle_as_transform(RatVec(<<1, 0, 0>>), RatVec(<<1, 2, 0>>), RatVec(<<1, 0, 3>>))

\* C21: the world-space hit of a shape intersected through its transform T is
\* the transported object-space hit: point_world = T * point_object and
\* t_world = t_object / |T^-1 * d_world|; t_world is the distance from the
\* ray start to the world-space hit point, ray.at(t_world) = point_world,
\* whether T scales uniformly or not.
C21_WorldHitIsTransportedObjectHit ==
    (args.some /\ returned.some /\ returned.v.world_hit.some) =>
        /\ returned.v.world_hit.v.point =
               Transform_mul_point(args.v.transform, returned.v.obj_hit.v.point)
        /\ returned.v.world_hit.v.t =
               RDiv(returned.v.obj_hit.v.t,
                    Vec3_norm(Transform_mul_vec(Transform_inv(args.v.transform),
                                                args.v.ray.direction)))
        /\ Ray_at(args.v.ray, returned.v.world_hit.v.t) = returned.v.world_hit.v.point
        /\ RLe(R0, returned.v.world_hit.v.t)
        /\ RMul(returned.v.world_hit.v.t, returned.v.world_hit.v.t) =
               Vec3_dot(RVSub(returned.v.world_hit.v.point, args.v.ray.start),
                        RVSub(returned.v.world_hit.v.point, args.v.ray.start))

\* a Triangle placed by triangle_as_transform, stretched differently along its
\* two sides, is hit, and the world-space t is not the object-space t
C21_Witness ==
    /\ args.some
    /\ args.v.shape = "Triangle"
    /\ args.v.transform = StretchedTriangle
    /\ returned.some
    /\ returned.v.world_hit.some
    /\ returned.v.world_hit.v.t # returned.v.obj_hit.v.t

\* ---------------------------------------------------------------------------
\* Properties of the path of trace_ray
\* ---------------------------------------------------------------------------

\* the sample of a hit came from the diffuse lobe (cosine weighted, weight
\* 0.5): a Diffuse material or the diffuse branch of DiffuseMirror
DiffuseSample(e) == e.sample.weight = Rat(1, 2)

\* the sample of a hit is a specular event: Mirror, Transparent, or the
\* mirror branch of DiffuseMirror
SpecularEvent(e) ==
    \/ e.material.material_type.kind \in {"Mirror", "Transparent"}
    \/ e.material.material_type.kind = "DiffuseMirror" /\ ~DiffuseSample(e)

OtherSide(e) == IF e.into THEN e.material.inside ELSE e.material.outside

\* the Snell term x = 1 - r^2 (1 - c^2) of a hit, r = medium / next medium
SnellTerm(e) ==
    snell_x(e.c, RDiv(e.medium.index_of_refraction, OtherSide(e).index_of_refraction))

\* C23: the medium passed to the recursive call differs from the current
\* medium only when the sample crosses the surface, and then it is the medium
\* on the other side of the hit surface; the sample crosses only for a
\* Transparent material with x = 1 - r^2 (1 - c^2) > 0; Diffuse, Mirror,
\* DiffuseMirror and total internal reflection keep the current medium.
C23_MediumChangesOnlyOnCrossing ==
    \A k \in 1..Len(path_log) :
        /\ path_log[k].passed_medium # path_log[k].medium => path_log[k].sample.crosses_surface
        /\ path_log[k].sample.crosses_surface => path_log[k].passed_medium = OtherSide(path_log[k])
        /\ ~path_log[k].sample.crosses_surface =>
               path_log[k].passed_medium = path_log[k].medium
        /\ path_log[k].sample.crosses_surface <=>
               /\ path_log[k].material.material_type.kind = "Transparent"
               /\ RLt(R0, SnellTerm(path_log[k]))
        /\ k > 1 => path_log[k].medium = path_log[k - 1].passed_medium

\* a ray enters glass through a Transparent surface and is then reflected by
\* total internal reflection at the next one: the medium changes at the first
\* hit and is kept at the second
C23_Witness ==
    /\ Len(path_log) >= 2
    /\ path_log[1].sample.crosses_surface
    /\ path_log[1].medium = Vacuum
    /\ path_log[1].passed_medium = GlassMedium
    /\ path_log[2].material.material_type.kind = "Transparent"
    /\ ~path_log[2].sample.crosses_surface
    /\ path_log[2].passed_medium = GlassMedium

\* C24: in a consistent scene the tracked medium is material.outside at every
\* hit that enters a surface and material.inside at every hit that leaves
\* one, so the debug assertions on the medium never fail.
C24_MediumMatchesInConsistentScene ==
    (path_scene.some /\ Consistent(path_scene.v)) =>
        /\ path_pc # "panic"
        /\ \A k \in 1..Len(path_log) :
               path_log[k].medium = asserted_medium(path_log[k].material, path_log[k].into)

\* ------------------------------------------------------------------------
\* Properties of sample_lights
\* ------------------------------------------------------------------------

\* the rounds of the loop of sample_lights in the call `frame` of trace_ray
\* took the pre-filtered lights in their order, one round per light
SampledInOrder(frame) ==
    /\ Len(frame.shadows) = frame.light_index
    /\ Len(frame.shadows) <= Cardinality(lights_of(materials))
    /\ \A i \in 1..Len(frame.shadows) :
           frame.shadows[i].light = light_at(materials, i - 1)
    /\ frame.pc = "next" =>
           Len(frame.shadows) \in {0, Cardinality(lights_of(materials))}

\* a light's contribution was added only if the nearest hit of its light ray
\* among the objects that are not camera-only is that light
AddedOnlyUnobstructed(frame) ==
    \A i \in 1..Len(frame.shadows) :
        frame.shadows[i].added => frame.shadows[i].nearest = Some(frame.shadows[i].light)

\* C25: sample_lights samples every light of the pre-filtered list exactly
\* once per call, and adds a light's contribution only when the nearest hit
\* of the light ray among the objects that are not camera-only has that
\* light's ObjectId: with another object nearer, or nothing hit, the light
\* contributes zero.
C25_EveryLightOnceAndOnlyIfNearest ==
    \A k \in 1..Len(stack) : SampledInOrder(stack[k]) /\ AddedOnlyUnobstructed(stack[k])

\* the loop alone: every light once, in the order of the list
EveryLightOnce == \A k \in 1..Len(stack) : SampledInOrder(stack[k])

\* relative to the accelerator: a contribution is added exactly when
\* accel.first_hit answered the light
AddedIffAccelAnswersLight ==
    \A k \in 1..Len(stack) : \A i \in 1..Len(stack[k].shadows) :
        stack[k].shadows[i].added <=> stack[k].shadows[i].hit = Some(stack[k].shadows[i].light)

\* ------------------------------------------------------------------------
\* Properties of the BVH traversal
\* ------------------------------------------------------------------------

\* the recursive calls of first_hit_impl in the query of the state
QueryVisits == BVH_visits(TheBVH, objects, query.v.ray, query.v.is_camera_ray)

\* the entry t of the box of a node for the ray of the query
NodeEntryT(node_index) == box_intersects(At(nodes, node_index).bound, query.v.ray)

\* the other child of the parent of a visited node
Sibling(v) ==
    IF v.node = At(nodes, v.parent).left_index THEN v.node + 1 ELSE v.node - 1

\* the t_max that first_hit_impl was called with on the parent of a visit
ParentTMax(log, v) ==
    IF v.parent = 0
    THEN hit_t_or_infinity(slice_first_hit(global_ids, objects, query.v.ray,
                                           query.v.is_camera_ray))
    ELSE log[CHOOSE k \in 1..Len(log) : log[k].node = v.parent].t_max

\* the hit found in the first visited child, for the visit of the second
FirstChildHit(v) ==
    first_hit_impl(TheBVH, objects, query.v.ray, query.v.is_camera_ray, Sibling(v), v.t_start)

\* the visit k of the log is as the traversal is described
VisitInOrder(log, k) ==
    /\ At(nodes, log[k].parent).kind = "Branch"
    /\ log[k].node \in { At(nodes, log[k].parent).left_index,
                         At(nodes, log[k].parent).left_index + 1 }
    /\ \A j \in 1..Len(log) : log[j].node = log[k].node => j = k
    /\ NodeEntryT(log[k].node).some
    /\ log[k].child_t = NodeEntryT(log[k].node).v
    /\ log[k].sibling_t = unwrap_or_infinity(NodeEntryT(Sibling(log[k])))
    /\ FLt(log[k].child_t, log[k].t_max)
    /\ log[k].t_start = ParentTMax(log, log[k])
    /\ log[k].rank = 1 =>
        /\ ~FLt(log[k].sibling_t, log[k].child_t)
        /\ log[k].t_max = log[k].t_start
    /\ log[k].rank = 2 =>
        /\ \E j \in 1..(k - 1) : log[j].node = Sibling(log[k]) /\ log[j].rank = 1
        /\ log[k].t_max = FMin(log[k].t_start, hit_t_or_infinity(FirstChildHit(log[k])))

AllVisitsInOrder(log) == \A k \in 1..Len(log) : VisitInOrder(log, k)

\* C26: at every Branch the child whose box has the smaller entry t is
\* visited first; a child is visited only if the ray meets its box with an
\* entry t strictly below the running t_max, which starts as the t of the
\* best hit of the global list (or infinity) and is lowered to the t of the
\* hit found in the first visited child before the second is considered.
C26_NearerChildFirstAndPruned == query.some => AllVisitsInOrder(QueryVisits)

HasLoweredSecond(log) ==
    \E k \in 1..Len(log) :
        /\ log[k].rank = 2
        /\ FLt(log[k].t_max, log[k].t_start)
        /\ FLt(log[k].child_t, log[k].sibling_t) = FALSE

HasPrunedSecond(log) ==
    \E k \in 1..Len(log) :
        /\ log[k].rank = 1
        /\ NodeEntryT(Sibling(log[k])).some
        /\ \A j \in 1..Len(log) : log[j].node # Sibling(log[k])

\* a query visited both children of a Branch, the second with the t_max
\* lowered to the t of the hit found in the first
C26_Witness == query.some /\ HasLoweredSecond(QueryVisits)

\* a query left out a second child whose box the ray meets
SecondChildPruned == query.some /\ HasPrunedSecond(QueryVisits)

\* ------------------------------------------------------------------------
\* Properties of the progress updates of the collector
\* ------------------------------------------------------------------------

\* the calls of P::update so far: the tiles the collector has received, in
\* their order, each once, none before its pixels are in target
UpdatesFollowWrites ==
    /\ Len(updated) <= Len(received)
    /\ \A k \in 1..Len(updated) : updated[k] = received[k]
    /\ Len(received) - Len(updated) = (IF coll_pc = "update" THEN 1 ELSE 0)
    /\ \A i, j \in 1..Len(updated) : updated[i] = updated[j] => i = j
    /\ \A k \in 1..Len(updated) :
        /\ \E i \in 1..Len(blocks) : blocks[i] = updated[k]
        /\ \A p \in Pixels(width, height) :
            InBlock(updated[k], p) => target[p] # PixelDefault /\ Produced(p) = {target[p]}
    /\ coll_pc = "returned" => Len(updated) = Len(split_into_blocks(width, height))

\* a step that calls P::update is a step of the collector thread alone, at
\* the end of an iteration of its loop, for the tile it has just copied
UpdateIsCollectorStep ==
    updated' # updated =>
        /\ coll_pc = "update"
        /\ coll_pc' = "recv"
        /\ updated' = Append(updated, received[Len(received)])
        /\ UNCHANGED <<main_pc, workers, channel, target, received>>

\* C27: the progress handler's update is called exactly once per tile, only
\* by the collector thread, one call at a time, and only after the pixels of
\* that tile are written into the target; when the collector returns, the
\* number of calls is the number of tiles.
C27_UpdateOncePerTileAfterWrite ==
    /\ []UpdatesFollowWrites
    /\ [][UpdateIsCollectorStep]_vars

\* render returned an image of several tiles that the collector received in
\* another order than split_into_blocks listed them: one update per tile
C27_Witness ==
    /\ main_pc = "returned"
    /\ Len(updated) = Len(split_into_blocks(width, height))
    /\ Len(updated) >= 3
    /\ updated # blocks

\* ------------------------------------------------------------------------
\* Properties of the recursion of the BVH build
\* ------------------------------------------------------------------------

\* the range <<start, len>> of ids below a node
RECURSIVE NodeRange(_, _)
NodeRange(tree, n) ==
    IF At(tree, n).kind = "Leaf" THEN <<At(tree, n).start, At(tree, n).len>>
    ELSE <<NodeRange(tree, At(tree, n).left_index)[1],
           NodeRange(tree, At(tree, n).left_index)[2]
               + NodeRange(tree, At(tree, n).left_index + 1)[2]>>

\* the two children of the Branch n are nodes with non-empty contiguous ranges
ChildrenPartition(tree, n) ==
    /\ At(tree, n).left_index + 1 <= Len(tree) - 1
    /\ At(tree, n).left_index > n
    /\ NodeRange(tree, At(tree, n).left_index)[2] >= 1
    /\ NodeRange(tree, At(tree, n).left_index + 1)[2] >= 1
    /\ NodeRange(tree, At(tree, n).left_index + 1)[1]
           = NodeRange(tree, At(tree, n).left_index)[1]
               + NodeRange(tree, At(tree, n).left_index)[2]

\* the nodes of the build so far: leaves of len >= 1 inside ids, branches with
\* two children that partition their range, at most 2n - 1 nodes for n ids
TreeIsBounded ==
    bvh_pc \in {"split", "built"} =>
        /\ \A n \in 0..(Len(nodes) - 1) :
            /\ NodeRange(nodes, n)[2] >= 1
            /\ NodeRange(nodes, n)[1] + NodeRange(nodes, n)[2] <= Len(ids)
            /\ At(nodes, n).kind = "Branch" => ChildrenPartition(nodes, n)
        /\ Len(ids) = 0 => nodes = <<>>
        /\ Len(ids) >= 1 => Len(nodes) <= 2 * Len(ids) - 1

\* how many ids of the range of a leaf go to the left of the split `best`
LeftCount(node, best) ==
    Cardinality({ k \in (node.start + 1)..(node.start + node.len) :
                    split_pred(objects, best.v[1], best.v[2])[ids[k]] })

\* the split of the leaf at the head of todo made it a Branch of two leaves
\* that share its range, the left one left_len long
BecameBranch(h, node, left_len) ==
    /\ left_len >= 1
    /\ left_len < node.len
    /\ Len(nodes') = Len(nodes) + 2
    /\ \A k \in 0..(Len(nodes) - 1) : k # h => At(nodes', k) = At(nodes, k)
    /\ At(nodes', h).kind = "Branch"
    /\ At(nodes', h).bound = node.bound
    /\ At(nodes', h).left_index = Len(nodes)
    /\ At(nodes', Len(nodes)).kind = "Leaf"
    /\ At(nodes', Len(nodes)).start = node.start
    /\ At(nodes', Len(nodes)).len = left_len
    /\ At(nodes', Len(nodes) + 1).kind = "Leaf"
    /\ At(nodes', Len(nodes) + 1).start = node.start + left_len
    /\ At(nodes', Len(nodes) + 1).len = node.len - left_len
    /\ todo' = <<Len(nodes), Len(nodes) + 1>> \o Tail(todo)

\* the split of the leaf at the head of todo left every node as it was
StayedLeaf == nodes' = nodes /\ todo' = Tail(todo)

\* one call of Builder::split on the leaf `node`, given the split found
SplitOutcome(h, node, best) ==
    /\ node.kind = "Leaf"
    /\ IF best.some /\ LeftCount(node, best) >= 1 /\ LeftCount(node, best) < node.len
       THEN BecameBranch(h, node, LeftCount(node, best))
       ELSE StayedLeaf

\* a step of the build that is a call of Builder::split
SplitStepIsBounded ==
    (bvh_pc = "split" /\ todo # <<>>) =>
        SplitOutcome(Head(todo), At(nodes, Head(todo)),
                     find_best_split(objects, strategy, ids, At(nodes, Head(todo)).start,
                                     At(nodes, Head(todo)).len, At(nodes, Head(todo)).bound))

\* what is left of BVH::new: nothing once it has returned or panicked, and
\* during the recursion the calls of split still to make and twice the nodes
\* that can still be added
BuildMeasure ==
    IF bvh_pc \in {"built", "panic"} THEN 0
    ELSE IF bvh_pc = "new" THEN 4 * Len(objects) + 2
    ELSE 1 + Len(todo) + 2 * (2 * Len(ids) - 1 - Len(nodes))

\* every step of the build brings it nearer to its end
BuildAdvances == BuildMeasure' >= 0 /\ BuildMeasure' < BuildMeasure

\* C28: the BVH build terminates for every scene and split strategy, also
\* with objects that share a centroid: every step lowers a measure that
\* cannot go below zero.  A node becomes a Branch only when the partition
\* gives two non-empty sides: its children are leaves over contiguous,
\* strictly shorter ranges that partition its range; with an empty side the
\* node stays the Leaf it was and no node is added; the tree never has more
\* than 2n - 1 nodes for n tree objects.
C28_BuildTerminatesWithBoundedTree ==
    /\ []TreeIsBounded
    /\ [][SplitStepIsBounded /\ BuildAdvances]_vars

\* a build of three tree objects, two of them with the same centroid, ended
\* with a Branch and with a Leaf of two objects that a split left as it was
C28_Witness ==
    /\ bvh_pc = "built"
    /\ Len(ids) = 3
    /\ \E n \in 0..(Len(nodes) - 1) : At(nodes, n).kind = "Branch"
    /\ \E n \in 0..(Len(nodes) - 1) : At(nodes, n).kind = "Leaf" /\ At(nodes, n).len = 2
    /\ \E i, j \in 0..(Len(objects) - 1) : i # j /\ At(objects, i) = At(objects, j)

\* ------------------------------------------------------------------------
\* Properties of the ids of the hits
\* ------------------------------------------------------------------------

\* the object named by an Option<ObjectHit> is accepted by the filter of the
\* query and its intersection with the ray of the query is the returned Hit
NamesItsObject(h) ==
    h.some =>
        /\ h.v.id \in 0..(Len(objects) - 1)
        /\ filter_fixed_camera_only(query.v.is_camera_ray, At(objects, h.v.id))
        /\ intersect(At(objects, h.v.id), query.v.ray) = Some(h.v.hit)

\* the position in ids or global_ids of the object of a hit
PositionOf(slice_ids, id) == CHOOSE k \in 1..Len(slice_ids) : slice_ids[k] = id

\* the object before the hit one in its leaf or in the global list
PrecedingId(slice_ids, id) == slice_ids[PositionOf(slice_ids, id) - 1]

\* the hit object follows, in the Vec `slice_ids`, an object that the filter
\* rejected, and its id is not its position
AfterRejected(slice_ids, id) ==
    /\ \E k \in 1..Len(slice_ids) : slice_ids[k] = id
    /\ PositionOf(slice_ids, id) > 1
    /\ PositionOf(slice_ids, id) - 1 # id
    /\ ~filter_fixed_camera_only(query.v.is_camera_ray,
                                 At(objects, PrecedingId(slice_ids, id)))
    /\ intersect(At(objects, PrecedingId(slice_ids, id)), query.v.ray).some

\* C29: the ObjectId that BVH::first_hit and NoAccel::first_hit return names
\* the object whose intersection with the ray is the returned Hit, also when
\* the filter rejects objects before it in its leaf or in the global list
\* and the build has reordered the ids.
C29_IdNamesTheHitObject ==
    query.some =>
        /\ NamesItsObject(bvh_hit)
        /\ NamesItsObject(NoAccel_first_hit(objects, query.v.ray, query.v.is_camera_ray))

\* a query hit an object of the tree that comes after a rejected object which
\* the ray meets too, at a position of ids that is not its id
C29_Witness ==
    /\ query.some
    /\ bvh_hit.some
    /\ AfterRejected(ids, bvh_hit.v.id)

\* the same for an object of the global list
HitAfterRejectedGlobal ==
    /\ query.some
    /\ bvh_hit.some
    /\ AfterRejected(global_ids, bvh_hit.v.id)

\* ------------------------------------------------------------------------
\* Properties of the size of the target buffer
\* ------------------------------------------------------------------------

\* C30: for all u32 image sizes the collector's target buffer holds exactly
\* width * height pixels, so that every index of a tile is in bounds: the
\* pixel count is computed without overflow or wrap-around.
C30_TargetHoldsWidthTimesHeight ==
    returned.some =>
        /\ ~returned.v.panic
        /\ returned.v.len = Product64(args.v.width, args.v.height)

\* when the product of width and height is below 2^32 the buffer holds
\* width * height pixels
TargetExactBelow2Pow32 ==
    (returned.some /\ Product64(args.v.width, args.v.height)[1] = Wide(0, 0)) =>
        /\ ~returned.v.panic
        /\ returned.v.len = Product64(args.v.width, args.v.height)

====
